---- MODULE Spec2Model ----
(***************************************************************************)
(* Model of the canvas engine of the image editor                          *)
(* (src/src/canvas/engine/canvas-renderer.ts, createRenderer) and of the   *)
(* export service (src/src/services/file.service.ts, exportImage).         *)
(*                                                                         *)
(* Numbers.  JavaScript numbers are modelled exactly:                      *)
(*   - layer scale is kept in tenths      (10  = scale 1.0),               *)
(*   - layer opacity in hundredths        (100 = opacity 1.0),             *)
(*   - layer rotation in whole degrees, restricted to multiples of 90 so   *)
(*     that cos/sin are exact,                                             *)
(*   - filter magnitudes in hundredths    (10000 = 100%),                  *)
(*   - the view zoom, the pan offset and the crop source region are        *)
(*     rationals [n, d] in lowest terms with d > 0.                        *)
(* Floating-point rounding is not modelled.                                *)
(***************************************************************************)
EXTENDS Integers, Sequences, FiniteSets, TLC

\* ------------------------------------------------------------------ bounds
MaxIds == 2
MaxPending == 2
MaxBitmaps == 3
MaxCoord == 20
MaxGridLayers == 5
MaxPan == 150
MaxDen == 10
CropStep == 10
MaxTurn == 90

\* ------------------------------------------------------- program constants
ZoomMinTenths == 1
ZoomMax == 8
ScaleMinTenths == 1
ScaleMaxTenths == 50
GridSpacing == 50
ExportPadding == 10

\* --------------------------------------------------------------- rationals
Abs(n) == IF n < 0 THEN -n ELSE n

RECURSIVE GCD(_, _)
GCD(a, b) == IF b = 0 THEN a ELSE GCD(b, a % b)

RNorm(n, d) ==
  LET s == IF d < 0 THEN -1 ELSE 1
      g == GCD(Abs(n), Abs(d))
  IN  [n |-> (s * n) \div g, d |-> (s * d) \div g]

R(i) == [n |-> i, d |-> 1]
RAdd(a, b) == RNorm(a.n * b.d + b.n * a.d, a.d * b.d)
RSub(a, b) == RNorm(a.n * b.d - b.n * a.d, a.d * b.d)
RMul(a, b) == RNorm(a.n * b.n, a.d * b.d)
RDiv(a, b) == RNorm(a.n * b.d, a.d * b.n)
RLe(a, b) == a.n * b.d <= b.n * a.d
RLt(a, b) == a.n * b.d < b.n * a.d
RMin(a, b) == IF RLe(a, b) THEN a ELSE b
RMax(a, b) == IF RLe(a, b) THEN b ELSE a

Min(a, b) == IF a <= b THEN a ELSE b
Max(a, b) == IF a >= b THEN a ELSE b

\* Math.ceil(n / d) for d > 0
CeilDiv(n, d) == -((-n) \div d)

\* the number NaN, kept apart from every value the model computes with
NaN == -999999

\* const clamp = (v, min, max) => Math.min(Math.max(v, min), max); Math.max and
\* Math.min return NaN when an argument is NaN
clamp(v, lo, hi) == IF v = NaN THEN NaN ELSE Min(Max(v, lo), hi)

RClamp(v, lo, hi) == RMin(RMax(v, lo), hi)

\* cos and sin of a whole number of quarter turns (degrees, any sign)
Quarter(deg) == (deg \div 90) % 4
Cos90(deg) == CASE Quarter(deg) = 0 -> 1 [] Quarter(deg) = 1 -> 0
                [] Quarter(deg) = 2 -> -1 [] OTHER -> 0
Sin90(deg) == CASE Quarter(deg) = 0 -> 0 [] Quarter(deg) = 1 -> 1
                [] Quarter(deg) = 2 -> 0 [] OTHER -> -1

\* ------------------------------------------------------------------- state
VARIABLES
  layers,        \* state.layers: sequence of Layer records, last = topmost
  bitmaps,       \* every ImageBitmap created so far: handle -> [w, h, closed]
  nextId,        \* source of fresh layer ids
  zoom,          \* state.zoom (rational)
  offset,        \* state.offset: pan, [x, y] of rationals
  view,          \* state.view: viewport size [w, h]
  imgSize,       \* state.imgSize [w, h]
  filter,        \* state.filter
  overlayDrawer, \* the registered overlay callback, or NoDrawer
  pending,       \* asynchronous operations awaiting createImageBitmap
  frame,         \* what the last render() call drew
  cropEnabled,   \* CanvasStage: the crop tool is selected
  crop,          \* CanvasStage: the crop rectangle in image space, or NoCrop
  interaction,   \* CanvasStage: interactionRef.current, the drag session, or NoSession
  aspectRatio,   \* CropTool: the selected aspect ratio, [n, d] or Free
  isLocked,      \* CropTool: the aspect ratio constrains width and height changes
  callerOffsets, \* offset objects callers keep: [value, layers holding the object]
  last           \* the operation performed by the last step, with its inputs

vars == <<layers, bitmaps, nextId, zoom, offset, view, imgSize, filter,
          overlayDrawer, pending, frame, cropEnabled, crop, interaction,
          aspectRatio, isLocked, callerOffsets, last>>

NoCrop == [none |-> TRUE]
NoSession == [none |-> TRUE]
Free == [n |-> 0, d |-> 1]
\* useState<AspectRatio>('3:2')
InitialAspect == [n |-> 3, d |-> 2]

\* an engine call leaves the editor component and the callers' objects alone
EditorUnchanged ==
  UNCHANGED <<cropEnabled, crop, interaction, aspectRatio, isLocked, callerOffsets>>

\* the stage and panel state, for the engine functions that store or drop an
\* offset object
StageUnchanged == UNCHANGED <<cropEnabled, crop, interaction, aspectRatio, isLocked>>

NoDrawer == "none"
NoId == 0
NoOffset == [none |-> TRUE]
Vec(x, y) == [x |-> x, y |-> y]
RVec(x, y) == [x |-> R(x), y |-> R(y)]

\* an offset argument that is the k-th object a caller keeps, passed by reference
Ref(k) == [ref |-> k]
IsRef(off) == "ref" \in DOMAIN off

\* an object a caller keeps: its value now, its value when the caller made it,
\* and the ids of the layers whose offset field is this very object
CallerOffset(v) == [value |-> v, given |-> v, holders |-> {}]

\* layer id now holds the object of the offset argument off, if off is one
Hold(objs, off, id) ==
  IF IsRef(off) THEN [objs EXCEPT ![off.ref].holders = @ \cup {id}] ELSE objs

\* layer id now holds an object of its own
Release(objs, id) ==
  [k \in 1..Len(objs) |-> [objs[k] EXCEPT !.holders = @ \ {id}]]

NeutralFilter ==
  [brightness |-> 100, contrast |-> 100, saturation |-> 100, hue |-> 0,
   blur |-> 0, sharpen |-> 0, highlights |-> 100, shadows |-> 100,
   temperature |-> 0, exposure |-> 0, clarity |-> 0, fade |-> 0]

\* ---------------------------------------------------------------- helpers
Op(name, id, arg) == [op |-> name, id |-> id, arg |-> arg]

\* state.layers.findIndex((l) => l.id === id), 0 for -1
IndexOf(ls, id) ==
  IF \E i \in 1..Len(ls) : ls[i].id = id
  THEN CHOOSE i \in 1..Len(ls) : ls[i].id = id
  ELSE 0

RemoveAt(s, i) == [j \in 1..(Len(s) - 1) |-> IF j < i THEN s[j] ELSE s[j + 1]]

SetMax(S) == CHOOSE m \in S : \A x \in S : x <= m

\* bitmap.close(): closing a closed bitmap changes nothing
CloseAll(bm, hs) == [k \in 1..Len(bm) |-> IF k \in hs THEN [bm[k] EXCEPT !.closed = TRUE] ELSE bm[k]]

Handles(ls) == {ls[i].bitmap : i \in 1..Len(ls)}

\* createImageBitmap(...): a fresh open bitmap of the given size
NewBitmap(bm, w, h) == Append(bm, [w |-> w, h |-> h, closed |-> FALSE])

\* the Layer literal of addImage / addEmptyLayer
NewLayer(id, name, bitmap, off) ==
  [id |-> id, name |-> name, bitmap |-> bitmap, offset |-> off, visible |-> TRUE,
   scale |-> 10, rotation |-> 0, opacity |-> 100, blendMode |-> "source-over",
   locked |-> FALSE]

recomputeSize(ls, bm) ==
  IF Len(ls) = 0 THEN [w |-> 0, h |-> 0]
  ELSE [w |-> SetMax({bm[ls[i].bitmap].w : i \in 1..Len(ls)}),
        h |-> SetMax({bm[ls[i].bitmap].h : i \in 1..Len(ls)})]

\* ------------------------------------------------------------ filter chain
FilterOp(op, v) == [op |-> op, v |-> v]
PushIf(c, chain, e) == IF c THEN Append(chain, e) ELSE chain

RenderFiltersMutantAlwaysBrightness(f) ==
  LET clarityContrastBoost == f.clarity * 30
      claritySaturationBoost == f.clarity * 10
      fadeStrength == Max(0, Min(100, f.fade))
      fadeBrightnessBoost == fadeStrength * 20
      fadeContrastDrop == fadeStrength * 60
      fadeSaturationDrop == fadeStrength * 20
      hlOffset == (f.highlights - 100) * 30
      shOffset == (f.shadows - 100) * 20
      expOffset == f.exposure * 80
      effectiveBrightness ==
        f.brightness * 100 + hlOffset + shOffset + expOffset + fadeBrightnessBoost
      t == Max(-100, Min(100, f.temperature))
      tone == Abs(t)
      sepiaPct == IF t > 0 THEN tone * 60 ELSE tone * 25
      saturatePct == 10000 + t * 30
      hueShift == t * (-40)
      contrastBase == f.contrast * 100 + clarityContrastBoost - fadeContrastDrop
      effectiveContrast ==
        IF f.sharpen > 0 THEN contrastBase + f.sharpen * 20 ELSE contrastBase
      effectiveSaturation ==
        f.saturation * 100 + claritySaturationBoost - fadeSaturationDrop
      c1 == Append(<<>>, FilterOp("brightness", effectiveBrightness))
      c2 == PushIf(f.temperature # 0 /\ sepiaPct # 0, c1, FilterOp("sepia", sepiaPct))
      c3 == PushIf(f.temperature # 0 /\ saturatePct # 10000, c2,
                   FilterOp("saturate", saturatePct))
      c4 == PushIf(f.temperature # 0 /\ hueShift # 0, c3,
                   FilterOp("hue-rotate", hueShift))
      c5 == PushIf(effectiveContrast # 10000, c4, FilterOp("contrast", effectiveContrast))
      c6 == PushIf(effectiveSaturation # 10000, c5,
                   FilterOp("saturate", effectiveSaturation))
      c7 == PushIf(f.hue # 0, c6, FilterOp("hue-rotate", f.hue * 100))
  IN  PushIf(f.blur > 0, c7, FilterOp("blur", f.blur * 100))

RenderFiltersMutantContrastFirst(f) ==
  LET clarityContrastBoost == f.clarity * 30
      claritySaturationBoost == f.clarity * 10
      fadeStrength == Max(0, Min(100, f.fade))
      fadeBrightnessBoost == fadeStrength * 20
      fadeContrastDrop == fadeStrength * 60
      fadeSaturationDrop == fadeStrength * 20
      hlOffset == (f.highlights - 100) * 30
      shOffset == (f.shadows - 100) * 20
      expOffset == f.exposure * 80
      effectiveBrightness ==
        f.brightness * 100 + hlOffset + shOffset + expOffset + fadeBrightnessBoost
      t == Max(-100, Min(100, f.temperature))
      tone == Abs(t)
      sepiaPct == IF t > 0 THEN tone * 60 ELSE tone * 25
      saturatePct == 10000 + t * 30
      hueShift == t * (-40)
      contrastBase == f.contrast * 100 + clarityContrastBoost - fadeContrastDrop
      effectiveContrast ==
        IF f.sharpen > 0 THEN contrastBase + f.sharpen * 20 ELSE contrastBase
      effectiveSaturation ==
        f.saturation * 100 + claritySaturationBoost - fadeSaturationDrop
      c1 == PushIf(effectiveBrightness # 10000, <<>>,
                   FilterOp("brightness", effectiveBrightness))
      c0 == PushIf(effectiveContrast # 10000, c1, FilterOp("contrast", effectiveContrast))
      c2 == PushIf(f.temperature # 0 /\ sepiaPct # 0, c0, FilterOp("sepia", sepiaPct))
      c3 == PushIf(f.temperature # 0 /\ saturatePct # 10000, c2,
                   FilterOp("saturate", saturatePct))
      c4 == PushIf(f.temperature # 0 /\ hueShift # 0, c3,
                   FilterOp("hue-rotate", hueShift))
      c5 == c4
      c6 == PushIf(effectiveSaturation # 10000, c5,
                   FilterOp("saturate", effectiveSaturation))
      c7 == PushIf(f.hue # 0, c6, FilterOp("hue-rotate", f.hue * 100))
  IN  PushIf(f.blur > 0, c7, FilterOp("blur", f.blur * 100))

RenderFiltersMutantUnclampedTemperature(f) ==
  LET clarityContrastBoost == f.clarity * 30
      claritySaturationBoost == f.clarity * 10
      fadeStrength == Max(0, Min(100, f.fade))
      fadeBrightnessBoost == fadeStrength * 20
      fadeContrastDrop == fadeStrength * 60
      fadeSaturationDrop == fadeStrength * 20
      hlOffset == (f.highlights - 100) * 30
      shOffset == (f.shadows - 100) * 20
      expOffset == f.exposure * 80
      effectiveBrightness ==
        f.brightness * 100 + hlOffset + shOffset + expOffset + fadeBrightnessBoost
      t == f.temperature
      tone == Abs(t)
      sepiaPct == IF t > 0 THEN tone * 60 ELSE tone * 25
      saturatePct == 10000 + t * 30
      hueShift == t * (-40)
      contrastBase == f.contrast * 100 + clarityContrastBoost - fadeContrastDrop
      effectiveContrast ==
        IF f.sharpen > 0 THEN contrastBase + f.sharpen * 20 ELSE contrastBase
      effectiveSaturation ==
        f.saturation * 100 + claritySaturationBoost - fadeSaturationDrop
      c1 == PushIf(effectiveBrightness # 10000, <<>>,
                   FilterOp("brightness", effectiveBrightness))
      c2 == PushIf(f.temperature # 0 /\ sepiaPct # 0, c1, FilterOp("sepia", sepiaPct))
      c3 == PushIf(f.temperature # 0 /\ saturatePct # 10000, c2,
                   FilterOp("saturate", saturatePct))
      c4 == PushIf(f.temperature # 0 /\ hueShift # 0, c3,
                   FilterOp("hue-rotate", hueShift))
      c5 == PushIf(effectiveContrast # 10000, c4, FilterOp("contrast", effectiveContrast))
      c6 == PushIf(effectiveSaturation # 10000, c5,
                   FilterOp("saturate", effectiveSaturation))
      c7 == PushIf(f.hue # 0, c6, FilterOp("hue-rotate", f.hue * 100))
  IN  PushIf(f.blur > 0, c7, FilterOp("blur", f.blur * 100))

\* the filter string built in render(); magnitudes in hundredths
RenderFilters(f) ==
  LET clarityContrastBoost == f.clarity * 30
      claritySaturationBoost == f.clarity * 10
      fadeStrength == Max(0, Min(100, f.fade))
      fadeBrightnessBoost == fadeStrength * 20
      fadeContrastDrop == fadeStrength * 60
      fadeSaturationDrop == fadeStrength * 20
      hlOffset == (f.highlights - 100) * 30
      shOffset == (f.shadows - 100) * 20
      expOffset == f.exposure * 80
      effectiveBrightness ==
        f.brightness * 100 + hlOffset + shOffset + expOffset + fadeBrightnessBoost
      t == Max(-100, Min(100, f.temperature))
      tone == Abs(t)
      sepiaPct == IF t > 0 THEN tone * 60 ELSE tone * 25
      saturatePct == 10000 + t * 30
      hueShift == t * (-40)
      contrastBase == f.contrast * 100 + clarityContrastBoost - fadeContrastDrop
      effectiveContrast ==
        IF f.sharpen > 0 THEN contrastBase + f.sharpen * 20 ELSE contrastBase
      effectiveSaturation ==
        f.saturation * 100 + claritySaturationBoost - fadeSaturationDrop
      c1 == PushIf(effectiveBrightness # 10000, <<>>,
                   FilterOp("brightness", effectiveBrightness))
      c2 == PushIf(f.temperature # 0 /\ sepiaPct # 0, c1, FilterOp("sepia", sepiaPct))
      c3 == PushIf(f.temperature # 0 /\ saturatePct # 10000, c2,
                   FilterOp("saturate", saturatePct))
      c4 == PushIf(f.temperature # 0 /\ hueShift # 0, c3,
                   FilterOp("hue-rotate", hueShift))
      c5 == PushIf(effectiveContrast # 10000, c4, FilterOp("contrast", effectiveContrast))
      c6 == PushIf(effectiveSaturation # 10000, c5,
                   FilterOp("saturate", effectiveSaturation))
      c7 == PushIf(f.hue # 0, c6, FilterOp("hue-rotate", f.hue * 100))
  IN  PushIf(f.blur > 0, c7, FilterOp("blur", f.blur * 100))

\* the filter string built in exportImage; magnitudes in hundredths
ExportFilters(f) ==
  LET effectiveContrast ==
        IF f.sharpen > 0 THEN f.contrast * 100 + f.sharpen * 20 ELSE f.contrast * 100
      c1 == PushIf(f.brightness # 100, <<>>, FilterOp("brightness", f.brightness * 100))
      c2 == PushIf(effectiveContrast # 10000, c1, FilterOp("contrast", effectiveContrast))
      c3 == PushIf(f.saturation # 100, c2, FilterOp("saturate", f.saturation * 100))
      c4 == PushIf(f.hue # 0, c3, FilterOp("hue-rotate", f.hue * 100))
  IN  PushIf(f.blur > 0, c4, FilterOp("blur", f.blur * 100))

\* the indices of the visible layers, in z-order (forEach with the early return)
RECURSIVE VisibleFrom(_, _)
VisibleFrom(ls, i) ==
  IF i > Len(ls) THEN <<>>
  ELSE IF ls[i].visible THEN <<i>> \o VisibleFrom(ls, i + 1)
  ELSE VisibleFrom(ls, i + 1)
Visible(ls) == VisibleFrom(ls, 1)

\* ------------------------------------------------------------------ render
\* one drawImage call of render(): context settings and the target rectangle
RenderDraw(l, bm, z, o, v, s, f) ==
  LET x == RSub(RAdd(RDiv(R(v.w), R(2)), o.x), RDiv(RMul(R(s.w), z), R(2)))
      y == RSub(RAdd(RDiv(R(v.h), R(2)), o.y), RDiv(RMul(R(s.h), z), R(2)))
      layerW == bm[l.bitmap].w
      layerH == bm[l.bitmap].h
      layerCenterX == RAdd(R(l.offset.x), RDiv(R(layerW), R(2)))
      layerCenterY == RAdd(R(l.offset.y), RDiv(R(layerH), R(2)))
  IN  [bitmap |-> l.bitmap,
       filter |-> RenderFilters(f),
       globalAlpha |-> l.opacity,
       globalCompositeOperation |-> l.blendMode,
       cx |-> RAdd(x, RMul(layerCenterX, z)),
       cy |-> RAdd(y, RMul(layerCenterY, z)),
       rotate |-> l.rotation,
       w |-> RMul(RNorm(layerW * l.scale, 10), z),
       h |-> RMul(RNorm(layerH * l.scale, 10), z)]

\* render(): the frame it leaves on the two canvases
Render(ls, bm, z, o, v, s, f, od) ==
  [placeholder |-> (Len(ls) = 0),
   draws |-> [k \in 1..Len(Visible(ls)) |-> RenderDraw(ls[Visible(ls)[k]], bm, z, o, v, s, f)],
   overlay |-> od]

\* --------------------------------------------------- asynchronous operations
NoSnap == [none |-> TRUE]

\* an operation suspended at its await; id names the layer object it captured,
\* snap holds that object once it is no longer in state.layers
NoSrc == [none |-> TRUE]
Pend(op, id, w, h, name, off, fromLoad, src) ==
  [op |-> op, id |-> id, w |-> w, h |-> h, name |-> name, off |-> off,
   fromLoad |-> fromLoad, src |-> src, snap |-> NoSnap]

\* layer objects leaving state.layers stay reachable from suspended operations
Detach(pend, ls, ids) ==
  [k \in 1..Len(pend) |->
     IF pend[k].id \in ids /\ pend[k].snap = NoSnap /\ IndexOf(ls, pend[k].id) # 0
     THEN [pend[k] EXCEPT !.snap = ls[IndexOf(ls, pend[k].id)]]
     ELSE pend[k]]

Ids(ls) == {ls[i].id : i \in 1..Len(ls)}

Creates(pend) == Cardinality({k \in 1..Len(pend) : pend[k].op # "applyCrop"})

\* the model stops creating layers and bitmaps at its bounds
CropRoom(maxBitmaps) ==
  /\ Len(pending) < MaxPending
  /\ Len(bitmaps) + Len(pending) < maxBitmaps
Room(maxIds, maxBitmaps) ==
  /\ nextId + Creates(pending) <= maxIds
  /\ CropRoom(maxBitmaps)
CanCrop == CropRoom(MaxBitmaps)
CanCreate == Room(MaxIds, MaxBitmaps)

\* ------------------------------------------------------------- view actions
\* setSize(width, height)
SetSize(w, h) ==
  /\ view' = [w |-> w, h |-> h]
  /\ frame' = Render(layers, bitmaps, zoom, offset, view', imgSize, filter, overlayDrawer)
  /\ EditorUnchanged
  /\ last' = Op("setSize", NoId, view')
  /\ UNCHANGED <<layers, bitmaps, nextId, zoom, offset, imgSize, filter, overlayDrawer, pending>>

\* const scale = Math.min(vw / iw, vh / ih) * 0.9; state.zoom = scale || 1
FitZoom(v, s) ==
  LET scale == RMul(RMin(RNorm(v.w, s.w), RNorm(v.h, s.h)), RNorm(9, 10))
  IN  IF scale.n = 0 THEN R(1) ELSE scale

\* fitToView()
FitToView ==
  /\ EditorUnchanged
  /\ last' = Op("fitToView", NoId, Len(layers))
  /\ IF Len(layers) = 0
     THEN UNCHANGED <<zoom, offset, frame>>
     ELSE /\ imgSize.w > 0 /\ imgSize.h > 0
          /\ zoom' = FitZoom(view, imgSize)
          /\ offset' = RVec(0, 0)
          /\ frame' = Render(layers, bitmaps, zoom', offset', view, imgSize, filter, overlayDrawer)
  /\ UNCHANGED <<layers, bitmaps, nextId, view, imgSize, filter, overlayDrawer, pending>>

NoPointer == [none |-> TRUE]

\* zoomTo(newZoom, pointer?)
ZoomToEffectMutantIgnorePan(newZoom, pointer) ==
  LET nz == RClamp(newZoom, RNorm(ZoomMinTenths, 10), R(ZoomMax))
      center == [x |-> RNorm(view.w, 2), y |-> RNorm(view.h, 2)]
      k == RSub(R(1), RDiv(nz, zoom))
  IN  /\ IF pointer # NoPointer /\ Len(layers) # 0
         THEN LET dx == RSub(R(pointer.x), center.x)
                  dy == RSub(R(pointer.y), center.y)
              IN  offset' = [x |-> RAdd(offset.x, RMul(dx, k)),
                             y |-> RAdd(offset.y, RMul(dy, k))]
         ELSE offset' = offset
      /\ zoom' = nz
      /\ frame' = Render(layers, bitmaps, zoom', offset', view, imgSize, filter, overlayDrawer)
      /\ UNCHANGED <<layers, bitmaps, nextId, view, imgSize, filter, overlayDrawer, pending>>

ZoomToEffect(newZoom, pointer) ==
  LET nz == RClamp(newZoom, RNorm(ZoomMinTenths, 10), R(ZoomMax))
      center == [x |-> RNorm(view.w, 2), y |-> RNorm(view.h, 2)]
      k == RSub(R(1), RDiv(nz, zoom))
  IN  /\ IF pointer # NoPointer /\ Len(layers) # 0
         THEN LET dx == RSub(RSub(R(pointer.x), center.x), offset.x)
                  dy == RSub(RSub(R(pointer.y), center.y), offset.y)
              IN  offset' = [x |-> RAdd(offset.x, RMul(dx, k)),
                             y |-> RAdd(offset.y, RMul(dy, k))]
         ELSE offset' = offset
      /\ zoom' = nz
      /\ frame' = Render(layers, bitmaps, zoom', offset', view, imgSize, filter, overlayDrawer)
      /\ UNCHANGED <<layers, bitmaps, nextId, view, imgSize, filter, overlayDrawer, pending>>

ZoomTo(newZoom, pointer) ==
  /\ ZoomToEffect(newZoom, pointer)
  /\ EditorUnchanged
  /\ last' = Op("zoomTo", NoId, [zoom |-> newZoom, pointer |-> pointer])

\* zoomTo, the ghost also recording the zoom and the pan before the call
ZoomToFrom(newZoom, pointer) ==
  /\ ZoomToEffect(newZoom, pointer)
  /\ EditorUnchanged
  /\ last' = Op("zoomTo", NoId,
                [zoom |-> newZoom, pointer |-> pointer,
                 from |-> [zoom |-> zoom, offset |-> offset]])

\* zoomBy(delta, pointer?): factor = 1 - delta * 0.001
ZoomBy(delta, pointer) ==
  /\ ZoomToEffect(RMul(zoom, RNorm(1000 - delta, 1000)), pointer)
  /\ EditorUnchanged
  /\ last' = Op("zoomBy", NoId, [delta |-> delta, pointer |-> pointer])

\* pan(dx, dy)
Pan(dx, dy) ==
  /\ offset' = [x |-> RAdd(offset.x, R(dx)), y |-> RAdd(offset.y, R(dy))]
  /\ frame' = Render(layers, bitmaps, zoom, offset', view, imgSize, filter, overlayDrawer)
  /\ EditorUnchanged
  /\ last' = Op("pan", NoId, Vec(dx, dy))
  /\ UNCHANGED <<layers, bitmaps, nextId, zoom, view, imgSize, filter, overlayDrawer, pending>>

\* setView({zoom, offset})
SetView(z, o) ==
  /\ zoom' = RClamp(z, RNorm(ZoomMinTenths, 10), R(ZoomMax))
  /\ offset' = RVec(o.x, o.y)
  /\ frame' = Render(layers, bitmaps, zoom', offset', view, imgSize, filter, overlayDrawer)
  /\ EditorUnchanged
  /\ last' = Op("setView", NoId, [zoom |-> z, offset |-> o])
  /\ UNCHANGED <<layers, bitmaps, nextId, view, imgSize, filter, overlayDrawer, pending>>

\* setOverlay(drawer)
SetOverlay(d) ==
  /\ overlayDrawer' = d
  /\ frame' = Render(layers, bitmaps, zoom, offset, view, imgSize, filter, overlayDrawer')
  /\ EditorUnchanged
  /\ last' = Op("setOverlay", NoId, d)
  /\ UNCHANGED <<layers, bitmaps, nextId, zoom, offset, view, imgSize, filter, pending>>

\* setFilter(next)
SetFilter(f) ==
  /\ filter' = f
  /\ frame' = Render(layers, bitmaps, zoom, offset, view, imgSize, filter', overlayDrawer)
  /\ EditorUnchanged
  /\ last' = Op("setFilter", NoId, f)
  /\ UNCHANGED <<layers, bitmaps, nextId, zoom, offset, view, imgSize, overlayDrawer, pending>>

\* ------------------------------------------------------------ layer actions
ViewUnchanged == UNCHANGED <<zoom, offset, view, filter, overlayDrawer>>

\* the shape shared by the setLayerX handlers: find, early return, assign, render
Mutate(id, new, checkLocked) ==
  LET i == IndexOf(layers, id)
  IN  /\ IF i = 0 \/ (checkLocked /\ layers[i].locked)
         THEN UNCHANGED <<layers, frame>>
         ELSE /\ layers' = [layers EXCEPT ![i] = new]
              /\ frame' = Render(layers', bitmaps, zoom, offset, view, imgSize, filter, overlayDrawer)
      /\ UNCHANGED <<bitmaps, nextId, imgSize, pending>>
      /\ ViewUnchanged

At(id) == layers[IndexOf(layers, id)]
Has(id) == IndexOf(layers, id) # 0

\* Layer names are sequences of string pieces, so that `${layer.name} copy` is Append.

\* setLayerVisibility(id, visible)
SetLayerVisibility(id, visible) ==
  /\ Mutate(id, IF Has(id) THEN [At(id) EXCEPT !.visible = visible] ELSE NoSnap, FALSE)
  /\ EditorUnchanged
  /\ last' = Op("setLayerVisibility", id, visible)

\* setLayerLocked(id, locked)
SetLayerLocked(id, locked) ==
  /\ Mutate(id, IF Has(id) THEN [At(id) EXCEPT !.locked = locked] ELSE NoSnap, FALSE)
  /\ EditorUnchanged
  /\ last' = Op("setLayerLocked", id, locked)

\* moveLayerOffset(id, dx, dy)
\* layer.offset.x += dx; layer.offset.y += dy: the object is changed in place, so
\* the change shows in the caller's object and in every layer that holds it
MoveLayerOffset(id, dx, dy) ==
  LET i == IndexOf(layers, id)
      ks == {k \in 1..Len(callerOffsets) : id \in callerOffsets[k].holders}
      moved == {id} \cup UNION {callerOffsets[k].holders : k \in ks}
  IN  /\ IF i = 0 \/ layers[i].locked
         THEN UNCHANGED <<layers, frame, callerOffsets>>
         ELSE /\ layers' = [j \in 1..Len(layers) |->
                              IF layers[j].id \in moved
                              THEN [layers[j] EXCEPT !.offset = Vec(@.x + dx, @.y + dy)]
                              ELSE layers[j]]
              /\ callerOffsets' = [k \in 1..Len(callerOffsets) |->
                                     IF k \in ks
                                     THEN [callerOffsets[k] EXCEPT
                                             !.value = Vec(@.x + dx, @.y + dy)]
                                     ELSE callerOffsets[k]]
              /\ frame' = Render(layers', bitmaps, zoom, offset, view, imgSize, filter,
                                 overlayDrawer)
      /\ UNCHANGED <<bitmaps, nextId, imgSize, pending>>
      /\ ViewUnchanged
      /\ StageUnchanged
      /\ last' = Op("moveLayerOffset", id, Vec(dx, dy))

\* setLayerOffset(id, offset)
\* layer.offset = { ...offset }: a new object
SetLayerOffset(id, o) ==
  /\ Mutate(id, IF Has(id) THEN [At(id) EXCEPT !.offset = o] ELSE NoSnap, TRUE)
  /\ callerOffsets' = IF Has(id) /\ ~At(id).locked THEN Release(callerOffsets, id)
                      ELSE callerOffsets
  /\ StageUnchanged
  /\ last' = Op("setLayerOffset", id, o)

\* setLayerScale(id, scale), scale in tenths
SetLayerScale(id, scale) ==
  /\ Mutate(id, IF Has(id)
                THEN [At(id) EXCEPT !.scale = clamp(scale, ScaleMinTenths, ScaleMaxTenths)]
                ELSE NoSnap, TRUE)
  /\ EditorUnchanged
  /\ last' = Op("setLayerScale", id, scale)

\* JavaScript's a % m: the result takes the sign of a
JsRem(a, m) == IF a < 0 THEN -((-a) % m) ELSE a % m

\* setLayerRotation(id, rotation)
SetLayerRotation(id, rotation) ==
  /\ Mutate(id, IF Has(id) THEN [At(id) EXCEPT !.rotation = JsRem(rotation, 360)]
                ELSE NoSnap, TRUE)
  /\ EditorUnchanged
  /\ last' = Op("setLayerRotation", id, rotation)

\* setLayerOpacity(id, opacity), opacity in hundredths
SetLayerOpacity(id, opacity) ==
  /\ Mutate(id, IF Has(id) THEN [At(id) EXCEPT !.opacity = clamp(opacity, 0, 100)]
                ELSE NoSnap, TRUE)
  /\ EditorUnchanged
  /\ last' = Op("setLayerOpacity", id, opacity)

\* setLayerBlendMode(id, blendMode)
SetLayerBlendMode(id, blendMode) ==
  /\ Mutate(id, IF Has(id) THEN [At(id) EXCEPT !.blendMode = blendMode] ELSE NoSnap, TRUE)
  /\ EditorUnchanged
  /\ last' = Op("setLayerBlendMode", id, blendMode)

\* renameLayer(id, newName): no locked check in the source
RenameLayer(id, newName) ==
  /\ Mutate(id, IF Has(id) THEN [At(id) EXCEPT !.name = newName] ELSE NoSnap, FALSE)
  /\ EditorUnchanged
  /\ last' = Op("renameLayer", id, newName)

\* moveLayer(id, direction)
MoveLayer(id, direction) ==
  LET idx == IndexOf(layers, id)
      target == IF direction = "up" THEN idx + 1 ELSE idx - 1
  IN  /\ EditorUnchanged
      /\ last' = Op("moveLayer", id, direction)
      /\ IF idx = 0 \/ layers[idx].locked \/ target < 1 \/ target > Len(layers)
         THEN UNCHANGED <<layers, frame>>
         ELSE /\ layers' = [layers EXCEPT ![idx] = layers[target], ![target] = layers[idx]]
              /\ frame' = Render(layers', bitmaps, zoom, offset, view, imgSize, filter, overlayDrawer)
      /\ UNCHANGED <<bitmaps, nextId, imgSize, pending>>
      /\ ViewUnchanged

\* deleteLayer(id)
DeleteLayer(id) ==
  LET idx == IndexOf(layers, id)
  IN  /\ EditorUnchanged
      /\ last' = Op("deleteLayer", id, NoId)
      /\ IF idx = 0 \/ layers[idx].locked
         THEN UNCHANGED <<layers, bitmaps, imgSize, pending, frame>>
         ELSE /\ bitmaps' = CloseAll(bitmaps, {layers[idx].bitmap})
              /\ layers' = RemoveAt(layers, idx)
              /\ pending' = Detach(pending, layers, {id})
              /\ imgSize' = recomputeSize(layers', bitmaps')
              /\ frame' = Render(layers', bitmaps', zoom, offset, view, imgSize', filter, overlayDrawer)
      /\ UNCHANGED nextId
      /\ ViewUnchanged

\* destroy(): closes and drops every layer; no recomputeSize, no render
Destroy ==
  /\ bitmaps' = CloseAll(bitmaps, Handles(layers))
  /\ layers' = <<>>
  /\ pending' = Detach(pending, layers, Ids(layers))
  /\ EditorUnchanged
  /\ last' = Op("destroy", NoId, NoId)
  /\ UNCHANGED <<nextId, imgSize, frame>>
  /\ ViewUnchanged

\* ---------------------------------------------------------- adding layers
\* Math.ceil(Math.sqrt(n))
CeilSqrt(n) == CHOOSE g \in 0..n : g * g >= n /\ (g = 0 \/ (g - 1) * (g - 1) < n)

\* the automatic placement of addImage for layerIndex = state.layers.length
GridOffset(layerIndex) ==
  LET gridSize == CeilSqrt(layerIndex + 1)
      row == layerIndex \div gridSize
      col == layerIndex % gridSize
  IN  Vec(((2 * col - (gridSize - 1)) * GridSpacing) \div 2,
          ((2 * row - (gridSize - 1)) * GridSpacing) \div 2)

\* let layerOffset = offset || {x: 0, y: 0}; if (!offset && layers.length > 0) ...
LayerOffset(off, n) ==
  IF off = NoOffset THEN (IF n > 0 THEN GridOffset(n) ELSE Vec(0, 0)) ELSE off

\* addImage(file, name, offset) up to its await; w, h: the size the file decodes to
AddImageCall(w, h, name, off, fromLoad) ==
  pending' = Append(pending, Pend("addImage", NoId, w, h, name, off, fromLoad, NoSrc))

AddImage(w, h, name, off) ==
  /\ AddImageCall(w, h, name, off, FALSE)
  /\ EditorUnchanged
  /\ last' = Op("addImage", NoId, [w |-> w, h |-> h, name |-> name, offset |-> off])
  /\ UNCHANGED <<layers, bitmaps, nextId, imgSize, frame>>
  /\ ViewUnchanged

\* addImage after createImageBitmap(file) resolved
AddImageDone(i) ==
  LET p == pending[i]
      off == IF IsRef(p.off) THEN callerOffsets[p.off.ref].value
             ELSE LayerOffset(p.off, Len(layers))
  IN  /\ p.op = "addImage"
      /\ bitmaps' = NewBitmap(bitmaps, p.w, p.h)
      /\ layers' = Append(layers, NewLayer(nextId, p.name, Len(bitmaps'), off))
      /\ nextId' = nextId + 1
      /\ pending' = RemoveAt(pending, i)
      /\ imgSize' = recomputeSize(layers', bitmaps')
      /\ frame' = Render(layers', bitmaps', zoom, offset, view, imgSize', filter, overlayDrawer)
      /\ callerOffsets' = Hold(callerOffsets, p.off, nextId)
      /\ StageUnchanged
      /\ last' = Op("addImageDone", nextId,
                    [auto |-> (p.off = NoOffset), fromLoad |-> p.fromLoad, offset |-> off,
                     before |-> Len(layers)])
      /\ ViewUnchanged

\* loadImage(file): closes and drops the layers, then awaits addImage(file)
LoadImage(w, h) ==
  /\ bitmaps' = CloseAll(bitmaps, Handles(layers))
  /\ layers' = <<>>
  /\ pending' = Append(Detach(pending, layers, Ids(layers)),
                       Pend("addImage", NoId, w, h, <<"file">>, NoOffset, TRUE, NoSrc))
  /\ EditorUnchanged
  /\ last' = Op("loadImage", NoId, [w |-> w, h |-> h])
  /\ UNCHANGED <<nextId, imgSize, frame>>
  /\ ViewUnchanged

\* addEmptyLayer(width, height, name, offset) up to its await
AddEmptyLayer(w, h, name, off, ctxOk) ==
  /\ EditorUnchanged
  /\ last' = Op("addEmptyLayer", NoId, [w |-> w, h |-> h, ctxOk |-> ctxOk])
  /\ IF ctxOk
     THEN pending' = Append(pending, Pend("addEmptyLayer", NoId, w, h, name, off, FALSE, NoSrc))
     ELSE UNCHANGED pending
  /\ UNCHANGED <<layers, bitmaps, nextId, imgSize, frame>>
  /\ ViewUnchanged

\* addEmptyLayer after createImageBitmap(canvas) resolved
AddEmptyLayerDone(i) ==
  LET p == pending[i]
      off == IF p.off = NoOffset THEN Vec(0, 0)
             ELSE IF IsRef(p.off) THEN callerOffsets[p.off.ref].value
             ELSE p.off
  IN  /\ p.op = "addEmptyLayer"
      /\ bitmaps' = NewBitmap(bitmaps, p.w, p.h)
      /\ layers' = Append(layers, NewLayer(nextId, p.name, Len(bitmaps'), off))
      /\ nextId' = nextId + 1
      /\ pending' = RemoveAt(pending, i)
      /\ imgSize' = recomputeSize(layers', bitmaps')
      /\ frame' = Render(layers', bitmaps', zoom, offset, view, imgSize', filter, overlayDrawer)
      /\ callerOffsets' = Hold(callerOffsets, p.off, nextId)
      /\ StageUnchanged
      /\ last' = Op("addEmptyLayerDone", nextId, off)
      /\ ViewUnchanged

\* the layer object an awaiting operation captured
ObjOf(p) == IF Has(p.id) THEN At(p.id) ELSE p.snap

\* duplicateLayer(id) up to createImageBitmap(canvas).then; the suspended call
\* records the source layer as it was at the call
DuplicateLayer(id) ==
  /\ EditorUnchanged
  /\ last' = Op("duplicateLayer", id, NoId)
  /\ IF ~Has(id) \/ At(id).locked
     THEN UNCHANGED pending
     ELSE pending' = Append(pending,
            Pend("duplicateLayer", id, bitmaps[At(id).bitmap].w, bitmaps[At(id).bitmap].h,
                 At(id).name, NoOffset, FALSE, [called |-> At(id)]))
  /\ UNCHANGED <<layers, bitmaps, nextId, imgSize, frame>>
  /\ ViewUnchanged

\* the then-callback of duplicateLayer: reads the source layer object now
DuplicateLayerDone(i) ==
  LET p == pending[i]
      layer == ObjOf(p)
  IN  /\ p.op = "duplicateLayer"
      /\ bitmaps' = NewBitmap(bitmaps, p.w, p.h)
      /\ layers' = Append(layers,
            [id |-> nextId, name |-> Append(layer.name, "copy"), bitmap |-> Len(bitmaps'),
             offset |-> layer.offset, visible |-> layer.visible, scale |-> layer.scale,
             rotation |-> layer.rotation, opacity |-> layer.opacity,
             blendMode |-> layer.blendMode, locked |-> FALSE])
      /\ nextId' = nextId + 1
      /\ pending' = RemoveAt(pending, i)
      /\ imgSize' = recomputeSize(layers', bitmaps')
      /\ frame' = Render(layers', bitmaps', zoom, offset, view, imgSize', filter, overlayDrawer)
      /\ EditorUnchanged
      /\ last' = Op("duplicateLayerDone", nextId, [source |-> p.id, called |-> p.src.called])
      /\ ViewUnchanged

\* -------------------------------------------------------------------- crop
\* a crop rectangle: x, y, w, h rationals (image space), rotation in degrees
Rect(x, y, w, h, rotation) == [x |-> x, y |-> y, w |-> w, h |-> h, rotation |-> rotation]

\* Math.floor of a rational
RFloor(a) == a.n \div a.d

\* targetLayerId ? layers.find(l => l.id === targetLayerId) : layers[layers.length - 1]
CropTarget(ls, targetLayerId) ==
  IF targetLayerId # NoId THEN IndexOf(ls, targetLayerId) ELSE Len(ls)

\* the three early returns of applyCrop
CropProceedsMutantNoCtxCheck(ls, targetLayerId, ctxOk) ==
  /\ Len(ls) # 0
  /\ CropTarget(ls, targetLayerId) # 0
  /\ ~ls[CropTarget(ls, targetLayerId)].locked
CropProceeds(ls, targetLayerId, ctxOk) ==
  /\ Len(ls) # 0
  /\ CropTarget(ls, targetLayerId) # 0
  /\ ~ls[CropTarget(ls, targetLayerId)].locked
  /\ ctxOk

\* off.width = Math.max(1, Math.floor(rect.w)), off.height likewise
CropCanvas(rect) == [w |-> Max(1, RFloor(rect.w)), h |-> Max(1, RFloor(rect.h))]

\* the source rectangle handed to drawImage: cropLocalX/Y/W/H
CropSourceMutantTimesScale(target, bm, rect) ==
  LET bw == R(bm[target.bitmap].w)
      bh == R(bm[target.bitmap].h)
      dx == RSub(RAdd(rect.x, RDiv(rect.w, R(2))), RAdd(R(target.offset.x), RDiv(bw, R(2))))
      dy == RSub(RAdd(rect.y, RDiv(rect.h, R(2))), RAdd(R(target.offset.y), RDiv(bh, R(2))))
      scale == RNorm(target.scale, 10)
  IN  [x |-> RSub(RAdd(RDiv(bw, R(2)), RMul(dx, scale)), RDiv(RDiv(rect.w, R(2)), scale)),
       y |-> RSub(RAdd(RDiv(bh, R(2)), RMul(dy, scale)), RDiv(RDiv(rect.h, R(2)), scale)),
       w |-> RDiv(rect.w, scale),
       h |-> RDiv(rect.h, scale)]
CropSource(target, bm, rect) ==
  LET bw == R(bm[target.bitmap].w)
      bh == R(bm[target.bitmap].h)
      layerCenterX == RAdd(R(target.offset.x), RDiv(bw, R(2)))
      layerCenterY == RAdd(R(target.offset.y), RDiv(bh, R(2)))
      cropCenterX == RAdd(rect.x, RDiv(rect.w, R(2)))
      cropCenterY == RAdd(rect.y, RDiv(rect.h, R(2)))
      dx == RSub(cropCenterX, layerCenterX)
      dy == RSub(cropCenterY, layerCenterY)
      cos == R(Cos90(-target.rotation))
      sin == R(Sin90(-target.rotation))
      localDx == RSub(RMul(dx, cos), RMul(dy, sin))
      localDy == RAdd(RMul(dx, sin), RMul(dy, cos))
      scale == RNorm(target.scale, 10)
  IN  [x |-> RSub(RAdd(RDiv(bw, R(2)), RDiv(localDx, scale)), RDiv(RDiv(rect.w, R(2)), scale)),
       y |-> RSub(RAdd(RDiv(bh, R(2)), RDiv(localDy, scale)), RDiv(RDiv(rect.h, R(2)), scale)),
       w |-> RDiv(rect.w, scale),
       h |-> RDiv(rect.h, scale)]

\* applyCrop(rect, targetLayerId) up to await createImageBitmap(off);
\* ctxOk: off.getContext('2d') returned a context
ApplyCrop(rect, targetLayerId, ctxOk) ==
  LET t == CropTarget(layers, targetLayerId)
  IN  /\ EditorUnchanged
      /\ last' = Op("applyCrop", targetLayerId, [rect |-> rect, ctxOk |-> ctxOk])
      /\ IF CropProceeds(layers, targetLayerId, ctxOk)
         THEN pending' = Append(pending,
                Pend("applyCrop", layers[t].id, CropCanvas(rect).w, CropCanvas(rect).h,
                     layers[t].name, NoOffset, FALSE,
                     [from |-> CropSource(layers[t], bitmaps, rect),
                      rotate |-> rect.rotation + layers[t].rotation,
                      rect |-> rect,
                      layer |-> layers[t],
                      size |-> [w |-> bitmaps[layers[t].bitmap].w,
                                h |-> bitmaps[layers[t].bitmap].h]]))
         ELSE UNCHANGED pending
      /\ UNCHANGED <<layers, bitmaps, nextId, imgSize, frame>>
      /\ ViewUnchanged

\* the assignments to the target layer after the await
CropCommitMutantKeepScale(target, newBitmap) ==
  [target EXCEPT !.bitmap = newBitmap, !.offset = Vec(0, 0), !.rotation = 0]
CropCommit(target, newBitmap) ==
  [target EXCEPT !.bitmap = newBitmap, !.offset = Vec(0, 0), !.scale = 10, !.rotation = 0]

\* applyCrop after createImageBitmap(off) resolved
ApplyCropDone(i) ==
  LET p == pending[i]
      target == ObjOf(p)
      newBitmap == Len(bitmaps) + 1
      k == IndexOf(layers, p.id)
      rest == RemoveAt(pending, i)
  IN  /\ p.op = "applyCrop"
      /\ bitmaps' = NewBitmap(CloseAll(bitmaps, {target.bitmap}), p.w, p.h)
      /\ layers' = IF k # 0 THEN [layers EXCEPT ![k] = CropCommit(target, newBitmap)]
                   ELSE layers
      /\ pending' = [j \in 1..Len(rest) |->
                       IF rest[j].id = p.id /\ rest[j].snap # NoSnap
                       THEN [rest[j] EXCEPT !.snap = CropCommit(target, newBitmap)]
                       ELSE rest[j]]
      /\ imgSize' = recomputeSize(layers', bitmaps')
      /\ offset' = RVec(0, 0)
      /\ zoom' = R(1)
      /\ overlayDrawer' = NoDrawer
      /\ frame' = Render(layers', bitmaps', zoom', offset', view, imgSize', filter, overlayDrawer')
      /\ callerOffsets' = IF k # 0 THEN Release(callerOffsets, p.id) ELSE callerOffsets
      /\ StageUnchanged
      /\ last' = Op("applyCropDone", p.id,
                    [w |-> p.w, h |-> p.h, src |-> p.src, bitmap |-> newBitmap,
                     before |-> [target |-> target, zoom |-> zoom, offset |-> offset]])
      /\ UNCHANGED <<nextId, view, filter>>

\* ------------------------------------------------------------------ export
\* the x (axis = "x") or y coordinates of the four rotated corners of a layer,
\* in twentieths of an image-space unit
Corners20(l, bm, axis) ==
  LET w == bm[l.bitmap].w
      h == bm[l.bitmap].h
      cos == Cos90(l.rotation)
      sin == Sin90(l.rotation)
  IN  {IF axis = "x"
       THEN c[1] * w * l.scale * cos - c[2] * h * l.scale * sin + 20 * l.offset.x + 10 * w
       ELSE c[1] * w * l.scale * sin + c[2] * h * l.scale * cos + 20 * l.offset.y + 10 * h
       : c \in {<<-1, -1>>, <<1, -1>>, <<1, 1>>, <<-1, 1>>}}

SetMin(S) == CHOOSE m \in S : \A x \in S : m <= x

\* minX/maxX/minY/maxY over the visible layers, in twentieths
BBox20MutantAllLayers(ls, bm) ==
  LET xs == UNION {Corners20(ls[i], bm, "x") : i \in 1..Len(ls)}
      ys == UNION {Corners20(ls[i], bm, "y") : i \in 1..Len(ls)}
  IN  [minX |-> SetMin(xs), maxX |-> SetMax(xs), minY |-> SetMin(ys), maxY |-> SetMax(ys)]
BBox20(ls, bm) ==
  LET xs == UNION {Corners20(ls[i], bm, "x") : i \in {j \in 1..Len(ls) : ls[j].visible}}
      ys == UNION {Corners20(ls[i], bm, "y") : i \in {j \in 1..Len(ls) : ls[j].visible}}
  IN  [minX |-> SetMin(xs), maxX |-> SetMax(xs), minY |-> SetMin(ys), maxY |-> SetMax(ys)]

\* canvasW = Math.ceil(maxX - minX + padding * 2), canvasH likewise
ExportCanvas(ls, bm) ==
  [w |-> CeilDiv(BBox20(ls, bm).maxX - BBox20(ls, bm).minX + 20 * ExportPadding * 2, 20),
   h |-> CeilDiv(BBox20(ls, bm).maxY - BBox20(ls, bm).minY + 20 * ExportPadding * 2, 20)]

\* one drawImage call of exportImage: globalAlpha and globalCompositeOperation
\* are never assigned, so the canvas defaults (1, source-over) apply
ExportDraw(l, bm, f) ==
  [bitmap |-> l.bitmap,
   filter |-> ExportFilters(f),
   globalAlpha |-> 100,
   globalCompositeOperation |-> "source-over",
   cx |-> RSub(RAdd(R(l.offset.x), RNorm(bm[l.bitmap].w, 2)),
               RSub(RNorm(BBox20(layers, bm).minX, 20), R(ExportPadding))),
   cy |-> RSub(RAdd(R(l.offset.y), RNorm(bm[l.bitmap].h, 2)),
               RSub(RNorm(BBox20(layers, bm).minY, 20), R(ExportPadding))),
   rotate |-> l.rotation,
   w |-> RNorm(bm[l.bitmap].w * l.scale, 10),
   h |-> RNorm(bm[l.bitmap].h * l.scale, 10)]

\* exportImage(renderer): reads the engine state, changes none of it
ExportImage(ctxOk) ==
  /\ last' =
       IF Len(layers) = 0 \/ Visible(layers) = <<>> \/ ~ctxOk
       THEN Op("exportImage", NoId, [threw |-> TRUE])
       ELSE Op("exportImage", NoId,
               [threw |-> FALSE,
                canvas |-> ExportCanvas(layers, bitmaps),
                draws |-> [k \in 1..Len(Visible(layers)) |->
                             ExportDraw(layers[Visible(layers)[k]], bitmaps, filter)]])
  /\ UNCHANGED <<layers, bitmaps, nextId, zoom, offset, view, imgSize, filter,
                 overlayDrawer, pending, frame>>
  /\ EditorUnchanged

\* ---------------------------------------------------------------- services
\* cropImage(renderer, cropRect, targetLayerId): throws without layers, else awaits
\* renderer.applyCrop
CropImage(rect, targetLayerId, ctxOk) ==
  LET t == CropTarget(layers, targetLayerId)
  IN  /\ EditorUnchanged
      /\ last' = Op("cropImage", targetLayerId,
                    [threw |-> (Len(layers) = 0), rect |-> rect, ctxOk |-> ctxOk])
      /\ IF Len(layers) # 0 /\ CropProceeds(layers, targetLayerId, ctxOk)
         THEN pending' = Append(pending,
                Pend("applyCrop", layers[t].id, CropCanvas(rect).w, CropCanvas(rect).h,
                     layers[t].name, NoOffset, FALSE,
                     [from |-> CropSource(layers[t], bitmaps, rect),
                      rotate |-> rect.rotation + layers[t].rotation,
                      rect |-> rect,
                      layer |-> layers[t],
                      size |-> [w |-> bitmaps[layers[t].bitmap].w,
                                h |-> bitmaps[layers[t].bitmap].h]]))
         ELSE UNCHANGED pending
      /\ UNCHANGED <<layers, bitmaps, nextId, imgSize, frame>>
      /\ ViewUnchanged

\* the three throws of drawStroke: no layers, no target layer, no drawing context
DrawStrokeThrows(ls, layerId, ctxOk) ==
  \/ Len(ls) = 0
  \/ CropTarget(ls, layerId) = 0
  \/ ~ctxOk

\* drawStroke(renderer, stroke, layerId) up to await createImageBitmap(canvas)
DrawStroke(layerId, ctxOk) ==
  LET t == CropTarget(layers, layerId)
  IN  /\ EditorUnchanged
      /\ last' = Op("drawStroke", layerId,
                    [threw |-> DrawStrokeThrows(layers, layerId, ctxOk), ctxOk |-> ctxOk])
      /\ IF DrawStrokeThrows(layers, layerId, ctxOk)
         THEN UNCHANGED pending
         ELSE pending' = Append(pending,
                Pend("drawStroke", layers[t].id, bitmaps[layers[t].bitmap].w,
                     bitmaps[layers[t].bitmap].h, layers[t].name, NoOffset, FALSE, NoSrc))
      /\ UNCHANGED <<layers, bitmaps, nextId, imgSize, frame>>
      /\ ViewUnchanged

\* drawStroke after the await: the target's bitmap is closed and replaced, render()
DrawStrokeDone(i) ==
  LET p == pending[i]
      target == ObjOf(p)
      newBitmap == Len(bitmaps) + 1
      k == IndexOf(layers, p.id)
      rest == RemoveAt(pending, i)
  IN  /\ p.op = "drawStroke"
      /\ bitmaps' = NewBitmap(CloseAll(bitmaps, {target.bitmap}), p.w, p.h)
      /\ layers' = IF k # 0 THEN [layers EXCEPT ![k].bitmap = newBitmap] ELSE layers
      /\ pending' = [j \in 1..Len(rest) |->
                       IF rest[j].id = p.id /\ rest[j].snap # NoSnap
                       THEN [rest[j] EXCEPT !.snap.bitmap = newBitmap]
                       ELSE rest[j]]
      /\ frame' = Render(layers', bitmaps', zoom, offset, view, imgSize, filter, overlayDrawer)
      /\ EditorUnchanged
      /\ last' = Op("drawStrokeDone", p.id, [bitmap |-> newBitmap, closed |-> target.bitmap])
      /\ UNCHANGED <<nextId, imgSize>>
      /\ ViewUnchanged

\* the padding updateTextLayer assumes when it reads the position back
TextPadding == 20

\* updateTextLayer(renderer, layerId, textConfig) up to await addTextLayer: throws
\* without the layer, else closes its bitmap and splices it out of state.layers;
\* w, h: the size of the new text canvas, pad: its backgroundPadding
UpdateTextLayer(layerId, w, h, pad) ==
  LET idx == IndexOf(layers, layerId)
  IN  /\ EditorUnchanged
      /\ last' = Op("updateTextLayer", layerId, [threw |-> (idx = 0), w |-> w, h |-> h])
      /\ IF idx = 0
         THEN UNCHANGED <<layers, bitmaps, pending>>
         ELSE /\ bitmaps' = CloseAll(bitmaps, {layers[idx].bitmap})
              /\ layers' = RemoveAt(layers, idx)
              /\ pending' = Append(Detach(pending, layers, {layerId}),
                   Pend("updateTextLayer", NoId, w, h, <<"Text">>,
                        Vec(layers[idx].offset.x + TextPadding - pad,
                            layers[idx].offset.y + TextPadding - pad),
                        FALSE, [saved |-> layers[idx], savedIndex |-> idx]))
      /\ UNCHANGED <<nextId, imgSize, frame>>
      /\ ViewUnchanged

\* moveLayer(id, direction) on a layer list
MoveInMutantDownToBottom(ls, id, direction) ==
  LET idx == IndexOf(ls, id)
      target == IF direction = "up" THEN idx + 1 ELSE 1
  IN  IF idx = 0 \/ ls[idx].locked \/ target < 1 \/ target > Len(ls)
      THEN ls
      ELSE [ls EXCEPT ![idx] = ls[target], ![target] = ls[idx]]
MoveIn(ls, id, direction) ==
  LET idx == IndexOf(ls, id)
      target == IF direction = "up" THEN idx + 1 ELSE idx - 1
  IN  IF idx = 0 \/ ls[idx].locked \/ target < 1 \/ target > Len(ls)
      THEN ls
      ELSE [ls EXCEPT ![idx] = ls[target], ![target] = ls[idx]]

\* n calls of moveLayer(id, direction)
RECURSIVE MoveTimes(_, _, _, _)
MoveTimes(ls, id, direction, n) ==
  IF n <= 0 THEN ls ELSE MoveTimes(MoveIn(ls, id, direction), id, direction, n - 1)

\* updateTextLayer after addTextLayer resolved: addImage has pushed the new layer
\* at the given offset; the saved fields are restored (locked included) and
\* moveLayer is called once per index between the new layer's and the saved one
UpdateTextLayerDone(i) ==
  LET p == pending[i]
      saved == p.src.saved
      added == NewLayer(nextId, p.name, Len(bitmaps) + 1, p.off)
      newLayer == [added EXCEPT !.visible = saved.visible, !.scale = saved.scale,
                                !.rotation = saved.rotation, !.opacity = saved.opacity,
                                !.blendMode = saved.blendMode, !.locked = saved.locked]
      pushed == Append(layers, newLayer)
      currentIndex == Len(pushed)
  IN  /\ p.op = "updateTextLayer"
      /\ bitmaps' = NewBitmap(bitmaps, p.w, p.h)
      /\ layers' = IF currentIndex < p.src.savedIndex
                   THEN MoveTimes(pushed, nextId, "down", p.src.savedIndex - currentIndex)
                   ELSE MoveTimes(pushed, nextId, "up", currentIndex - p.src.savedIndex)
      /\ nextId' = nextId + 1
      /\ pending' = RemoveAt(pending, i)
      /\ imgSize' = recomputeSize(pushed, bitmaps')
      /\ frame' = Render(layers', bitmaps', zoom, offset, view, imgSize', filter, overlayDrawer)
      /\ EditorUnchanged
      /\ last' = Op("updateTextLayerDone", nextId, [replaced |-> saved.id])
      /\ ViewUnchanged

\* ------------------------------------------------------------- coordinates
\* the null that getTransforms, imageToView and viewToImage return without layers
Null == [none |-> TRUE]

\* getTransforms(): null without layers, else zoom and the view position of the
\* image-space origin
getTransforms(ls, v, s, z, o) ==
  IF Len(ls) = 0 THEN Null
  ELSE LET drawW == RMul(R(s.w), z)
           drawH == RMul(R(s.h), z)
           cx == RAdd(RNorm(v.w, 2), o.x)
           cy == RAdd(RNorm(v.h, 2), o.y)
       IN  [zoom |-> z,
            origin |-> [x |-> RSub(cx, RDiv(drawW, R(2))), y |-> RSub(cy, RDiv(drawH, R(2)))]]

\* imageToView(pt)
imageToView(t, pt) ==
  IF t = Null THEN Null
  ELSE [x |-> RAdd(t.origin.x, RMul(pt.x, t.zoom)), y |-> RAdd(t.origin.y, RMul(pt.y, t.zoom))]

\* viewToImage(pt)
viewToImageMutantTimesZoom(t, pt) ==
  IF t = Null THEN Null
  ELSE [x |-> RMul(RSub(pt.x, t.origin.x), t.zoom), y |-> RMul(RSub(pt.y, t.origin.y), t.zoom)]
viewToImage(t, pt) ==
  IF t = Null THEN Null
  ELSE [x |-> RDiv(RSub(pt.x, t.origin.x), t.zoom), y |-> RDiv(RSub(pt.y, t.origin.y), t.zoom)]

\* the stage maps a point to the view and back, or to the image and back, against
\* one snapshot of the renderer state
Transforms == getTransforms(layers, view, imgSize, zoom, offset)

ImageToView(pt) ==
  /\ EditorUnchanged
  /\ last' = Op("imageToView", NoId,
                [pt |-> pt, to |-> imageToView(Transforms, pt),
                 back |-> viewToImage(Transforms, imageToView(Transforms, pt))])
  /\ UNCHANGED <<layers, bitmaps, nextId, imgSize, pending, frame>>
  /\ ViewUnchanged

ViewToImage(pt) ==
  /\ EditorUnchanged
  /\ last' = Op("viewToImage", NoId,
                [pt |-> pt, to |-> viewToImage(Transforms, pt),
                 back |-> imageToView(Transforms, viewToImage(Transforms, pt))])
  /\ UNCHANGED <<layers, bitmaps, nextId, imgSize, pending, frame>>
  /\ ViewUnchanged

RAbs(a) == [n |-> Abs(a.n), d |-> a.d]

\* ---------------------------------------------------------------- crop tool
MinCropSize == 32
RotateHandleOffset == 32
HandleTol == 12
RotateTol == 10

\* toLocal(imgPt, rect): the offset from the rect's centre turned by -rotation
toLocal(imgPt, rect) ==
  LET cx == RAdd(rect.x, RDiv(rect.w, R(2)))
      cy == RAdd(rect.y, RDiv(rect.h, R(2)))
      dx == RSub(imgPt.x, cx)
      dy == RSub(imgPt.y, cy)
      cos == R(Cos90(-rect.rotation))
      sin == R(Sin90(-rect.rotation))
  IN  [x |-> RSub(RMul(dx, cos), RMul(dy, sin)), y |-> RAdd(RMul(dx, sin), RMul(dy, cos))]

\* fromLocalOffset(offset, rect): a local offset turned by +rotation
fromLocalOffset(off, rect) ==
  LET cos == R(Cos90(rect.rotation))
      sin == R(Sin90(rect.rotation))
  IN  [x |-> RSub(RMul(off.x, cos), RMul(off.y, sin)),
       y |-> RAdd(RMul(off.x, sin), RMul(off.y, cos))]

Hit(mode, handle) == [mode |-> mode, handle |-> handle]
NoHit == Hit("none", "none")

\* Math.abs(a - b) <= tol
near(a, b, tol) == RLe(RAbs(RSub(a, b)), tol)

\* Math.hypot(x, y) <= r, for r >= 0
HypotLe(x, y, r) == RLe(RAdd(RMul(x, x), RMul(y, y)), RMul(r, r))

\* handleChecks of hitTest, in its order
handleChecks(local, halfW, halfH, tol) ==
  <<[hit |-> Hit("resize", "nw"),
     ok |-> near(local.x, RSub(R(0), halfW), tol) /\ near(local.y, RSub(R(0), halfH), tol)],
    [hit |-> Hit("resize", "ne"),
     ok |-> near(local.x, halfW, tol) /\ near(local.y, RSub(R(0), halfH), tol)],
    [hit |-> Hit("resize", "se"),
     ok |-> near(local.x, halfW, tol) /\ near(local.y, halfH, tol)],
    [hit |-> Hit("resize", "sw"),
     ok |-> near(local.x, RSub(R(0), halfW), tol) /\ near(local.y, halfH, tol)],
    [hit |-> Hit("resize", "n"),
     ok |-> near(local.y, RSub(R(0), halfH), tol) /\ RLt(RAbs(local.x), halfW)],
    [hit |-> Hit("resize", "e"),
     ok |-> near(local.x, halfW, tol) /\ RLt(RAbs(local.y), halfH)],
    [hit |-> Hit("resize", "s"),
     ok |-> near(local.y, halfH, tol) /\ RLt(RAbs(local.x), halfW)],
    [hit |-> Hit("resize", "w"),
     ok |-> near(local.x, RSub(R(0), halfW), tol) /\ RLt(RAbs(local.y), halfH)]>>

FirstOkMutantLastWins(checks) ==
  IF \E i \in 1..Len(checks) : checks[i].ok
  THEN checks[CHOOSE i \in 1..Len(checks) :
                checks[i].ok /\ \A j \in (i + 1)..Len(checks) : ~checks[j].ok].hit
  ELSE NoHit

\* for (const [hit, ok] of handleChecks) if (ok) return hit
FirstOk(checks) ==
  IF \E i \in 1..Len(checks) : checks[i].ok
  THEN checks[CHOOSE i \in 1..Len(checks) :
                checks[i].ok /\ \A j \in 1..(i - 1) : ~checks[j].ok].hit
  ELSE NoHit

\* hitTest(viewPt) against the crop rectangle c, transforms t and zoom z
hitTest(c, t, z, viewPt) ==
  IF c = NoCrop THEN NoHit
  ELSE IF viewToImage(t, viewPt) = Null THEN NoHit
  ELSE LET local == toLocal(viewToImage(t, viewPt), c)
           halfW == RDiv(c.w, R(2))
           halfH == RDiv(c.h, R(2))
           tol == RDiv(R(HandleTol), z)
           rotateTol == RDiv(R(RotateTol), z)
           insideRect == RLe(RAbs(local.x), halfW) /\ RLe(RAbs(local.y), halfH)
       IN  IF HypotLe(local.x, RAdd(RAdd(local.y, halfH), RDiv(R(RotateHandleOffset), z)),
                      RMul(rotateTol, RNorm(14, 10)))
           THEN Hit("rotate", "none")
           ELSE IF FirstOk(handleChecks(local, halfW, halfH, tol)) # NoHit
           THEN FirstOk(handleChecks(local, halfW, halfH, tol))
           ELSE IF insideRect THEN Hit("move", "none")
           ELSE NoHit

\* the view position at which updateOverlay draws the rotate handle
rotateHandleView(c, t) ==
  LET halfW == RDiv(c.w, R(2))
      halfH == RDiv(c.h, R(2))
      center == [x |-> RAdd(c.x, halfW), y |-> RAdd(c.y, halfH)]
      cos == R(Cos90(c.rotation))
      sin == R(Sin90(c.rotation))
      px == R(0)
      py == RSub(RSub(R(0), halfH), R(RotateHandleOffset))
      rx == RAdd(RSub(RMul(px, cos), RMul(py, sin)), center.x)
      ry == RAdd(RAdd(RMul(px, sin), RMul(py, cos)), center.y)
  IN  imageToView(t, [x |-> rx, y |-> ry])

\* the box the stage centres in the image: frac of the image size, unrotated
DefaultCrop(sz, frac) ==
  LET boxW == RMul(R(sz.w), frac)
      boxH == RMul(R(sz.h), frac)
  IN  Rect(RDiv(RSub(R(sz.w), boxW), R(2)), RDiv(RSub(R(sz.h), boxH), R(2)), boxW, boxH, 0)

\* the overlay callback updateOverlay registers
StageDrawer == "stageOverlay"

\* updateOverlay(): renderer.setOverlay(...), which renders
UpdateOverlay ==
  /\ overlayDrawer' = StageDrawer
  /\ frame' = Render(layers, bitmaps, zoom, offset, view, imgSize, filter, StageDrawer)

\* the stage's applyCrop(next): updateCrop(next), render, and the overlay effect
StageCrop(next) ==
  /\ crop' = next
  /\ UpdateOverlay

EngineUnchanged == UNCHANGED <<layers, bitmaps, nextId, zoom, offset, view, imgSize, filter, pending>>

\* the tool is selected: CropTool mounts, the stage effect initialises the rectangle
SelectCropTool ==
  /\ cropEnabled' = TRUE
  /\ crop' = IF Len(layers) # 0 /\ crop = NoCrop
             THEN DefaultCrop(imgSize, RNorm(6, 10)) ELSE crop
  /\ UpdateOverlay
  /\ aspectRatio' = InitialAspect
  /\ isLocked' = FALSE
  /\ last' = Op("selectCropTool", NoId, NoId)
  /\ EngineUnchanged
  /\ UNCHANGED <<interaction, callerOffsets>>

\* another tool is selected; the stage effect then drops the rectangle
DeselectCropTool ==
  /\ cropEnabled' = FALSE
  /\ crop' = crop
  /\ UpdateOverlay
  /\ last' = Op("deselectCropTool", NoId, NoId)
  /\ EngineUnchanged
  /\ UNCHANGED <<interaction, aspectRatio, isLocked, callerOffsets>>

\* onCropMouseDown
OnCropMouseDown(viewPt) ==
  LET hit == hitTest(crop, Transforms, zoom, viewPt)
      imgPt == viewToImage(Transforms, viewPt)
  IN  /\ IF ~cropEnabled \/ crop = NoCrop \/ Len(layers) = 0 \/ hit = NoHit \/ imgPt = Null
         THEN interaction' = interaction
         ELSE interaction' =
                [mode |-> hit.mode, handle |-> hit.handle, startCrop |-> crop,
                 startPointerImg |-> imgPt, startLocal |-> toLocal(imgPt, crop),
                 startRotation |-> crop.rotation]
      /\ last' = Op("onCropMouseDown", NoId, [pt |-> viewPt, hit |-> hit])
      /\ EngineUnchanged
      /\ UNCHANGED <<overlayDrawer, frame, cropEnabled, crop, aspectRatio, isLocked,
                     callerOffsets>>

\* toLocalFromStart of onCropMouseMove: the offset from the start centre turned
\* by +rotation
toLocalFromStart(pt, start) ==
  LET center0 == [x |-> RAdd(start.x, RDiv(start.w, R(2))),
                  y |-> RAdd(start.y, RDiv(start.h, R(2)))]
      dx == RSub(pt.x, center0.x)
      dy == RSub(pt.y, center0.y)
      cos == R(Cos90(start.rotation))
      sin == R(Sin90(start.rotation))
  IN  [x |-> RSub(RMul(dx, cos), RMul(dy, sin)), y |-> RAdd(RMul(dx, sin), RMul(dy, cos))]

\* the local position of the edge or corner opposite the handle
anchor(handle, halfW0, halfH0) ==
  LET mw == RSub(R(0), halfW0)
      mh == RSub(R(0), halfH0)
  IN  CASE handle = "e" -> [x |-> mw, y |-> R(0)]
        [] handle = "w" -> [x |-> halfW0, y |-> R(0)]
        [] handle = "n" -> [x |-> R(0), y |-> halfH0]
        [] handle = "s" -> [x |-> R(0), y |-> mh]
        [] handle = "ne" -> [x |-> mw, y |-> halfH0]
        [] handle = "nw" -> [x |-> halfW0, y |-> halfH0]
        [] handle = "se" -> [x |-> mw, y |-> mh]
        [] handle = "sw" -> [x |-> halfW0, y |-> mh]
        [] OTHER -> [x |-> R(0), y |-> R(0)]

\* the resize branch of onCropMouseMove
resizeCrop(start, handle, imgPt) ==
  LET halfW0 == RDiv(start.w, R(2))
      halfH0 == RDiv(start.h, R(2))
      center0 == [x |-> RAdd(start.x, halfW0), y |-> RAdd(start.y, halfH0)]
      currentLocal == toLocalFromStart(imgPt, start)
      minHalf == RNorm(MinCropSize, 2)
      a == anchor(handle, halfW0, halfH0)
      spanW == RMax(minHalf, RDiv(RAbs(RSub(currentLocal.x, a.x)), R(2)))
      spanH == RMax(minHalf, RDiv(RAbs(RSub(currentLocal.y, a.y)), R(2)))
      midX == RDiv(RAdd(currentLocal.x, a.x), R(2))
      midY == RDiv(RAdd(currentLocal.y, a.y), R(2))
      horizontal == handle \in {"e", "w"}
      vertical == handle \in {"n", "s"}
      nextHalfW == IF vertical THEN halfW0 ELSE spanW
      nextHalfH == IF horizontal THEN halfH0 ELSE spanH
      nextCenterLocal == [x |-> IF vertical THEN R(0) ELSE midX,
                          y |-> IF horizontal THEN R(0) ELSE midY]
      centerOffsetImg == fromLocalOffset(nextCenterLocal, start)
      center == [x |-> RAdd(center0.x, centerOffsetImg.x),
                 y |-> RAdd(center0.y, centerOffsetImg.y)]
  IN  [start EXCEPT !.x = RSub(center.x, nextHalfW), !.y = RSub(center.y, nextHalfH),
                    !.w = RMul(nextHalfW, R(2)), !.h = RMul(nextHalfH, R(2))]

\* Math.atan2(y, x) in degrees, for the directions of the axes
OnAxis(y, x) == (x.n = 0) # (y.n = 0)
Atan2Deg(y, x) ==
  CASE x.n > 0 -> 0
    [] x.n < 0 -> 180
    [] y.n > 0 -> 90
    [] y.n < 0 -> -90
    [] OTHER -> 0

\* the rotate branch of onCropMouseMove
rotateCrop(session, imgPt) ==
  LET start == session.startCrop
      center0 == [x |-> RAdd(start.x, RDiv(start.w, R(2))),
                  y |-> RAdd(start.y, RDiv(start.h, R(2)))]
      a0 == Atan2Deg(RSub(session.startPointerImg.y, center0.y),
                     RSub(session.startPointerImg.x, center0.x))
      a1 == Atan2Deg(RSub(imgPt.y, center0.y), RSub(imgPt.x, center0.x))
  IN  [start EXCEPT !.rotation = session.startRotation + (a1 - a0)]

\* the move branch of onCropMouseMove
moveCrop(session, imgPt) ==
  LET start == session.startCrop
  IN  [start EXCEPT !.x = RAdd(start.x, RSub(imgPt.x, session.startPointerImg.x)),
                    !.y = RAdd(start.y, RSub(imgPt.y, session.startPointerImg.y))]

\* onCropMouseMove: the listener registered by onCropMouseDown, whose closure
\* holds the cropEnabled and crop of that moment
OnCropMouseMove(viewPt) ==
  LET imgPt == viewToImage(Transforms, viewPt)
  IN  /\ IF interaction = NoSession \/ imgPt = Null
         THEN UNCHANGED <<crop, overlayDrawer, frame>>
         ELSE StageCrop(CASE interaction.mode = "move" -> moveCrop(interaction, imgPt)
                          [] interaction.mode = "rotate" -> rotateCrop(interaction, imgPt)
                          [] OTHER -> resizeCrop(interaction.startCrop, interaction.handle, imgPt))
      /\ last' = Op("onCropMouseMove", NoId, [pt |-> viewPt, img |-> imgPt])
      /\ EngineUnchanged
      /\ UNCHANGED <<cropEnabled, interaction, aspectRatio, isLocked, callerOffsets>>

\* onCropMouseUp
OnCropMouseUp ==
  /\ interaction' = NoSession
  /\ last' = Op("onCropMouseUp", NoId, NoId)
  /\ EngineUnchanged
  /\ UNCHANGED <<overlayDrawer, frame, cropEnabled, crop, aspectRatio, isLocked, callerOffsets>>

\* ------------------------------------------------------------ crop panel
PanelMinSize == 32

\* the aspect-ratio effect of CropTool: the new rectangle around the same centre
aspectCrop(c, sz, ratio) ==
  LET centerX == RAdd(c.x, RDiv(c.w, R(2)))
      centerY == RAdd(c.y, RDiv(c.h, R(2)))
      w0 == c.w
      h0 == RDiv(c.w, ratio)
      tall == RLt(R(sz.h), h0)
      h1 == IF tall THEN RMul(R(sz.h), RNorm(9, 10)) ELSE h0
      w1 == IF tall THEN RMul(h1, ratio) ELSE w0
      right == RLt(R(sz.w), RAdd(centerX, RDiv(w1, R(2))))
      w2 == IF right THEN RMul(RSub(R(sz.w), centerX), R(2)) ELSE w1
      h2 == IF right THEN RDiv(w2, ratio) ELSE h1
      below == RLt(R(sz.h), RAdd(centerY, RDiv(h2, R(2))))
      h3 == IF below THEN RMul(RSub(R(sz.h), centerY), R(2)) ELSE h2
      w3 == IF below THEN RMul(h3, ratio) ELSE w2
      left == RLt(RSub(centerX, RDiv(w3, R(2))), R(0))
      w4 == IF left THEN RMul(centerX, R(2)) ELSE w3
      h4 == IF left THEN RDiv(w4, ratio) ELSE h3
      above == RLt(RSub(centerY, RDiv(h4, R(2))), R(0))
      h5 == IF above THEN RMul(centerY, R(2)) ELSE h4
      w5 == IF above THEN RMul(h5, ratio) ELSE w4
  IN  Rect(RSub(centerX, RDiv(w5, R(2))), RSub(centerY, RDiv(h5, R(2))), w5, h5, c.rotation)

\* the effect on [aspectRatio]: the user picks a ratio in the mounted panel
SetAspectRatio(ratio) ==
  /\ cropEnabled
  /\ aspectRatio' = ratio
  /\ IF crop = NoCrop \/ ratio = Free
     THEN /\ isLocked' = FALSE
          /\ UNCHANGED <<crop, overlayDrawer, frame>>
     ELSE /\ isLocked' = TRUE
          /\ StageCrop(aspectCrop(crop, imgSize, ratio))
  /\ last' = Op("setAspectRatio", NoId, ratio)
  /\ EngineUnchanged
  /\ UNCHANGED <<cropEnabled, interaction, callerOffsets>>

\* Math.max(32, Math.min(value, limit || Infinity))
panelClamp(value, limit) ==
  IF limit = 0 THEN Max(PanelMinSize, value) ELSE Max(PanelMinSize, Min(value, limit))

\* handleWidthChange(newWidth)
HandleWidthChange(newWidth) ==
  LET newW == R(panelClamp(newWidth, imgSize.w))
      newH == RDiv(newW, aspectRatio)
      centerX == RAdd(crop.x, RDiv(crop.w, R(2)))
      centerY == RAdd(crop.y, RDiv(crop.h, R(2)))
  IN  /\ cropEnabled
      /\ IF crop = NoCrop THEN UNCHANGED <<crop, overlayDrawer, frame>>
         ELSE IF isLocked /\ aspectRatio # Free
         THEN StageCrop(Rect(RSub(centerX, RDiv(newW, R(2))), RSub(centerY, RDiv(newH, R(2))),
                             newW, newH, crop.rotation))
         ELSE StageCrop([crop EXCEPT !.w = newW])
      /\ last' = Op("handleWidthChange", NoId, newWidth)
      /\ EngineUnchanged
      /\ UNCHANGED <<cropEnabled, interaction, aspectRatio, isLocked, callerOffsets>>

\* handleHeightChange(newHeight)
HandleHeightChange(newHeight) ==
  LET newH == R(panelClamp(newHeight, imgSize.h))
      newW == RMul(newH, aspectRatio)
      centerX == RAdd(crop.x, RDiv(crop.w, R(2)))
      centerY == RAdd(crop.y, RDiv(crop.h, R(2)))
  IN  /\ cropEnabled
      /\ IF crop = NoCrop THEN UNCHANGED <<crop, overlayDrawer, frame>>
         ELSE IF isLocked /\ aspectRatio # Free
         THEN StageCrop(Rect(RSub(centerX, RDiv(newW, R(2))), RSub(centerY, RDiv(newH, R(2))),
                             newW, newH, crop.rotation))
         ELSE StageCrop([crop EXCEPT !.h = newH])
      /\ last' = Op("handleHeightChange", NoId, newHeight)
      /\ EngineUnchanged
      /\ UNCHANGED <<cropEnabled, interaction, aspectRatio, isLocked, callerOffsets>>

\* ------------------------------------------------- stage: upload and commit
\* loadImage(file) of handleUpload has resolved and the handler resumes
UploadResuming == last.op = "addImageDone" /\ last.arg.fromLoad

\* handleUpload after its await: fitToView, then the rectangle for the new image
HandleUploadDone ==
  /\ UploadResuming
  /\ zoom' = FitZoom(view, imgSize)
  /\ offset' = RVec(0, 0)
  /\ crop' = IF cropEnabled THEN DefaultCrop(imgSize, RNorm(6, 10)) ELSE NoCrop
  /\ overlayDrawer' = IF cropEnabled THEN StageDrawer ELSE NoDrawer
  /\ frame' = Render(layers, bitmaps, zoom', offset', view, imgSize, filter, overlayDrawer')
  /\ last' = Op("handleUploadDone", NoId, NoId)
  /\ UNCHANGED <<layers, bitmaps, nextId, view, imgSize, filter, pending>>
  /\ UNCHANGED <<cropEnabled, interaction, aspectRatio, isLocked, callerOffsets>>

\* renderer.applyCrop(crop, targetLayerId) of handleCropConfirm has resolved,
\* after its commit or after one of its early returns
ConfirmResuming ==
  \/ last.op = "applyCropDone"
  \/ last.op = "applyCrop" /\ pending = <<>>

\* handleCropConfirm after its await: the rectangle for the cropped image,
\* fitToView, and onSelectTool(null)
HandleCropConfirmDone ==
  /\ ConfirmResuming
  /\ crop' = DefaultCrop(imgSize, RNorm(8, 10))
  /\ zoom' = IF Len(layers) = 0 THEN zoom ELSE FitZoom(view, imgSize)
  /\ offset' = IF Len(layers) = 0 THEN offset ELSE RVec(0, 0)
  /\ cropEnabled' = FALSE
  /\ overlayDrawer' = StageDrawer
  /\ frame' = Render(layers, bitmaps, zoom', offset', view, imgSize, filter, StageDrawer)
  /\ last' = Op("handleCropConfirmDone", NoId, NoId)
  /\ UNCHANGED <<layers, bitmaps, nextId, view, imgSize, filter, pending>>
  /\ UNCHANGED <<interaction, aspectRatio, isLocked, callerOffsets>>

\* the stage effect on [cropEnabled, crop] has yet to run
EffectPending == ~cropEnabled /\ crop # NoCrop

\* the stage effect with the tool deselected: updateCrop(null), updateOverlay()
StageEffect ==
  /\ EffectPending
  /\ crop' = NoCrop
  /\ UpdateOverlay
  /\ last' = Op("stageEffect", NoId, NoId)
  /\ EngineUnchanged
  /\ UNCHANGED <<cropEnabled, interaction, aspectRatio, isLocked, callerOffsets>>

\* ---------------------------------------------------------- layer hit test
\* the loop of hitTestLayer over [...layers].reverse(), from index i downwards
RECURSIVE hitTestLayerFromMutantIgnoreVisible(_, _, _, _)
hitTestLayerFromMutantIgnoreVisible(ls, bm, imgPt, i) ==
  IF i = 0 THEN NoId
  ELSE LET layer == ls[i]
           w == bm[layer.bitmap].w
           h == bm[layer.bitmap].h
           centerX == RAdd(R(layer.offset.x), RNorm(w, 2))
           centerY == RAdd(R(layer.offset.y), RNorm(h, 2))
           dx == RSub(imgPt.x, centerX)
           dy == RSub(imgPt.y, centerY)
           cos == R(Cos90(-layer.rotation))
           sin == R(Sin90(-layer.rotation))
           localX == RSub(RMul(dx, cos), RMul(dy, sin))
           localY == RAdd(RMul(dx, sin), RMul(dy, cos))
           halfW == RNorm(w * layer.scale, 20)
           halfH == RNorm(h * layer.scale, 20)
       IN  IF RLe(RAbs(localX), halfW) /\ RLe(RAbs(localY), halfH) THEN layer.id
           ELSE hitTestLayerFromMutantIgnoreVisible(ls, bm, imgPt, i - 1)

RECURSIVE hitTestLayerFrom(_, _, _, _)
hitTestLayerFrom(ls, bm, imgPt, i) ==
  IF i = 0 THEN NoId
  ELSE LET layer == ls[i]
           w == bm[layer.bitmap].w
           h == bm[layer.bitmap].h
           centerX == RAdd(R(layer.offset.x), RNorm(w, 2))
           centerY == RAdd(R(layer.offset.y), RNorm(h, 2))
           dx == RSub(imgPt.x, centerX)
           dy == RSub(imgPt.y, centerY)
           cos == R(Cos90(-layer.rotation))
           sin == R(Sin90(-layer.rotation))
           localX == RSub(RMul(dx, cos), RMul(dy, sin))
           localY == RAdd(RMul(dx, sin), RMul(dy, cos))
           halfW == RNorm(w * layer.scale, 20)
           halfH == RNorm(h * layer.scale, 20)
       IN  IF ~layer.visible THEN hitTestLayerFrom(ls, bm, imgPt, i - 1)
           ELSE IF RLe(RAbs(localX), halfW) /\ RLe(RAbs(localY), halfH) THEN layer.id
           ELSE hitTestLayerFrom(ls, bm, imgPt, i - 1)

\* hitTestLayer(viewPt): the id of the layer hit, NoId for null
hitTestLayer(ls, bm, t, viewPt) ==
  IF Len(ls) = 0 THEN NoId
  ELSE IF viewToImage(t, viewPt) = Null THEN NoId
  ELSE hitTestLayerFrom(ls, bm, viewToImage(t, viewPt), Len(ls))

HitTestLayer(viewPt) ==
  /\ EditorUnchanged
  /\ last' = Op("hitTestLayer", hitTestLayer(layers, bitmaps, Transforms, viewPt), viewPt)
  /\ UNCHANGED <<layers, bitmaps, nextId, imgSize, pending, frame>>
  /\ ViewUnchanged

\* ----------------------------------------------------------- specification
\* the state createRenderer returns: no layers, zoom 1, nothing drawn yet
Blank == [placeholder |-> FALSE, draws |-> <<>>, overlay |-> NoDrawer]

Init ==
  /\ layers = <<>>
  /\ bitmaps = <<>>
  /\ nextId = 1
  /\ zoom = R(1)
  /\ offset = RVec(0, 0)
  /\ view = [w |-> 0, h |-> 0]
  /\ imgSize = [w |-> 0, h |-> 0]
  /\ filter = NeutralFilter
  /\ overlayDrawer = NoDrawer
  /\ pending = <<>>
  /\ frame = Blank
  /\ cropEnabled = FALSE
  /\ crop = NoCrop
  /\ interaction = NoSession
  /\ aspectRatio = InitialAspect
  /\ isLocked = FALSE
  /\ callerOffsets = <<>>
  /\ last = Op("init", NoId, NoId)

\* inputs of the engine specification
LayerIds == 1..MaxIds
Sizes == {[w |-> 200, h |-> 100], [w |-> 64, h |-> 300]}
RectA == Rect(R(50), R(25), R(100), R(50), 0)

\* the model moves a layer only within MaxCoord of the origin
InCoords(id, dx, dy) ==
  Has(id) => Abs(At(id).offset.x + dx) <= MaxCoord /\ Abs(At(id).offset.y + dy) <= MaxCoord

\* Spec: the layer set under asynchronous loading, duplication, cropping, deletion
Next ==
  \/ \E sz \in Sizes : CanCreate /\ AddImage(sz.w, sz.h, <<"a">>, NoOffset)
  \/ \E i \in 1..Len(pending) : AddImageDone(i)
  \/ \E sz \in Sizes : CanCreate /\ LoadImage(sz.w, sz.h)
  \/ \E ok \in BOOLEAN : CanCreate /\ AddEmptyLayer(32, 32, <<"e">>, Vec(10, 20), ok)
  \/ \E i \in 1..Len(pending) : AddEmptyLayerDone(i)
  \/ \E id \in LayerIds : CanCreate /\ DuplicateLayer(id)
  \/ \E i \in 1..Len(pending) : DuplicateLayerDone(i)
  \/ \E id \in LayerIds : DeleteLayer(id)
  \/ SetLayerScale(1, 60)
  \/ SetLayerOffset(1, Vec(10, 20))
  \/ \E t \in {NoId, 1} : CanCrop /\ ApplyCrop(RectA, t, TRUE)
  \/ \E i \in 1..Len(pending) : ApplyCropDone(i)
  \/ Destroy

Spec == Init /\ [][Next]_vars

\* a state with the given layers and bitmaps as the engine leaves it once every
\* pending operation has completed: imgSize recomputed, frame rendered
Settled(ls, bm, z, o, v, f, od, op) ==
  /\ layers = ls
  /\ bitmaps = bm
  /\ nextId = Len(ls) + 1
  /\ zoom = z
  /\ offset = o
  /\ view = v
  /\ imgSize = recomputeSize(ls, bm)
  /\ filter = f
  /\ overlayDrawer = od
  /\ pending = <<>>
  /\ frame = Render(ls, bm, z, o, v, recomputeSize(ls, bm), f, od)
  /\ cropEnabled = FALSE
  /\ crop = NoCrop
  /\ interaction = NoSession
  /\ aspectRatio = InitialAspect
  /\ isLocked = FALSE
  /\ callerOffsets = <<>>
  /\ last = Op(op, NoId, NoId)

Bitmap(w, h) == [w |-> w, h |-> h, closed |-> FALSE]

\* SpecLock: two layers that earlier calls added, transformed and locked; the
\* collaborators call the layer operations on locked layers and toggle lock and
\* visibility freely
InitLock ==
  \E l1, l2 \in BOOLEAN, sc \in {10, 25}, ro \in {0, 90}, op \in {100, 50},
     bl \in {"source-over", "multiply"} :
    Settled(<<[NewLayer(1, <<"a">>, 1, Vec(0, 0))
                 EXCEPT !.locked = l1, !.scale = sc, !.rotation = ro, !.opacity = op,
                        !.blendMode = bl],
              [NewLayer(2, <<"b">>, 2, GridOffset(1)) EXCEPT !.locked = l2]>>,
            <<Bitmap(200, 100), Bitmap(64, 300)>>,
            R(1), RVec(0, 0), [w |-> 400, h |-> 300], NeutralFilter, NoDrawer, "init")

LockIds == {1, 2}
IsLocked(id) == Has(id) /\ At(id).locked

NextLock ==
  \/ \E id \in LockIds : IsLocked(id) /\ MoveLayerOffset(id, 10, 20)
  \/ \E id \in LockIds : IsLocked(id) /\ SetLayerOffset(id, Vec(10, 20))
  \/ \E id \in LockIds : IsLocked(id) /\ SetLayerScale(id, 60)
  \/ \E id \in LockIds : IsLocked(id) /\ SetLayerRotation(id, 180)
  \/ \E id \in LockIds : IsLocked(id) /\ SetLayerOpacity(id, 20)
  \/ \E id \in LockIds : IsLocked(id) /\ SetLayerBlendMode(id, "screen")
  \/ \E id \in LockIds : IsLocked(id) /\ RenameLayer(id, <<"r">>)
  \/ \E id \in LockIds, d \in {"up", "down"} : IsLocked(id) /\ MoveLayer(id, d)
  \/ \E id \in LockIds : IsLocked(id) /\ DuplicateLayer(id)
  \/ \E id \in LockIds : IsLocked(id) /\ DeleteLayer(id)
  \/ \E id \in LockIds : IsLocked(id) /\ ApplyCrop(RectA, id, TRUE)
  \/ IsLocked(layers[Len(layers)].id) /\ ApplyCrop(RectA, NoId, TRUE)
  \/ \E id \in LockIds, b \in BOOLEAN : SetLayerLocked(id, b)
  \/ \E id \in LockIds, b \in BOOLEAN : SetLayerVisibility(id, b)

SpecLock == InitLock /\ [][NextLock]_vars

\* SpecView: the view operations over one image
ViewSizes == {[w |-> 400, h |-> 300]}
ImageSizes == {[w |-> 200, h |-> 100], [w |-> 8000, h |-> 6000]}
Pointer == Vec(100, 100)

\* the model pans only within MaxCoord of the origin
InPan(dx, dy) ==
  /\ RLe(RAdd(offset.x, R(dx)), R(MaxCoord)) /\ RLe(R(-MaxCoord), RAdd(offset.x, R(dx)))
  /\ RLe(RAdd(offset.y, R(dy)), R(MaxCoord)) /\ RLe(R(-MaxCoord), RAdd(offset.y, R(dy)))

\* the model follows the pan offset while it stays within MaxPan of the origin
\* and its denominators within MaxDen
Tame(c) == c.d <= MaxDen /\ Abs(c.n) <= MaxPan * c.d
TameView == Tame(offset.x) /\ Tame(offset.y) /\ zoom.d <= MaxDen

NextView ==
  \/ \E v \in ViewSizes : SetSize(v.w, v.h)
  \/ FitToView
  \/ \E z \in {RNorm(1, 20), R(10)}, p \in {NoPointer, Pointer} :
       ZoomTo(z, p) /\ TameView'
  \/ ZoomBy(-1000, NoPointer)
  \/ InPan(10, -10) /\ Pan(10, -10)
  \/ SetView(R(20), Vec(5, 5))
  \/ \E sz \in ImageSizes : Room(1, 2) /\ AddImage(sz.w, sz.h, <<"a">>, NoOffset)
  \/ \E i \in 1..Len(pending) : AddImageDone(i)
  \/ CropRoom(2) /\ ApplyCrop(RectA, NoId, TRUE)
  \/ \E i \in 1..Len(pending) : ApplyCropDone(i)

SpecView == Init /\ [][NextView]_vars

\* SpecExport: exportImage over two transformed layers and several filter states
FilterInputs ==
  {NeutralFilter,
   [NeutralFilter EXCEPT !.brightness = 120, !.sharpen = 50, !.hue = 30, !.blur = 2],
   [NeutralFilter EXCEPT !.temperature = 50],
   [NeutralFilter EXCEPT !.fade = 30, !.clarity = 20, !.exposure = -10]}

InitExport ==
  \E v1, v2 \in BOOLEAN, sc \in {10, 25}, ro1, ro2 \in {0, 90}, o \in {Vec(0, 0), Vec(-30, 45)} :
    Settled(<<[NewLayer(1, <<"a">>, 1, o)
                 EXCEPT !.visible = v1, !.scale = sc, !.rotation = ro1],
              [NewLayer(2, <<"b">>, 2, GridOffset(1))
                 EXCEPT !.visible = v2, !.rotation = ro2]>>,
            <<Bitmap(201, 100), Bitmap(64, 300)>>,
            R(1), RVec(0, 0), [w |-> 400, h |-> 300], NeutralFilter, NoDrawer, "init")

NextExport ==
  \/ \E ok \in BOOLEAN : ExportImage(ok)
  \/ \E f \in FilterInputs : SetFilter(f)
  \/ SetLayerOpacity(1, 50)
  \/ SetLayerBlendMode(2, "multiply")
  \/ \E d \in {"up", "down"} : MoveLayer(1, d)
  \/ DeleteLayer(2)

SpecExport == InitExport /\ [][NextExport]_vars

\* SpecGrid: images added one after another without an explicit offset
NextGrid ==
  \/ \E sz \in Sizes :
       Room(MaxGridLayers, MaxGridLayers + 1) /\ AddImage(sz.w, sz.h, <<"a">>, NoOffset)
  \/ \E i \in 1..Len(pending) : AddImageDone(i)

SpecGrid == Init /\ [][NextGrid]_vars

\* SpecCrop: applyCrop over two layers, the first moved, scaled and rotated, with
\* the view zoomed and panned and the crop overlay registered
CropDrawer == "cropOverlay"
MissingId == 9
CropRects ==
  {RectA,
   Rect(R(-100), R(-50), R(400), R(200), 0),
   Rect(R(10), R(5), RNorm(256, 5), RNorm(1, 2), 0),
   Rect(R(0), R(0), R(64), R(300), 90)}

CropLayers ==
  {[NewLayer(1, <<"a">>, 1, Vec(0, 0)) EXCEPT !.scale = 10],
   [NewLayer(1, <<"a">>, 1, Vec(0, 0)) EXCEPT !.scale = 5],
   [NewLayer(1, <<"a">>, 1, Vec(10, 20)) EXCEPT !.scale = 20],
   [NewLayer(1, <<"a">>, 1, Vec(10, 20)) EXCEPT !.scale = 5, !.rotation = 90]}

InitCrop ==
  \E l1 \in CropLayers :
    Settled(<<l1, NewLayer(2, <<"b">>, 2, GridOffset(1))>>,
            <<Bitmap(200, 100), Bitmap(64, 300)>>,
            R(2), RVec(5, 5), [w |-> 400, h |-> 300], NeutralFilter, CropDrawer, "init")

NextCrop ==
  \/ \E rect \in CropRects, t \in {NoId, 1, MissingId}, ok \in BOOLEAN :
       CanCrop /\ ApplyCrop(rect, t, ok)
  \/ \E i \in 1..Len(pending) : ApplyCropDone(i)
  \/ \E id \in {1, 2} : DeleteLayer(id)
  \/ SetView(R(2), Vec(5, 5))
  \/ SetOverlay(CropDrawer)

SpecCrop == InitCrop /\ [][NextCrop]_vars

\* SpecService: the commands the collaborators call (export, crop, draw, text
\* update) on a document that is loaded, edited and emptied meanwhile
ServiceTargets == {NoId, 1, MissingId}
TextSize == [w |-> 120, h |-> 60]

NextService ==
  \/ \E sz \in Sizes : CanCreate /\ AddImage(sz.w, sz.h, <<"a">>, NoOffset)
  \/ \E i \in 1..Len(pending) : AddImageDone(i)
  \/ \E id \in LayerIds : DeleteLayer(id)
  \/ \E ok \in BOOLEAN : ExportImage(ok)
  \/ \E t \in ServiceTargets, ok \in BOOLEAN : CanCrop /\ CropImage(RectA, t, ok)
  \/ \E t \in ServiceTargets : CanCrop /\ ApplyCrop(RectA, t, TRUE)
  \/ \E i \in 1..Len(pending) : ApplyCropDone(i)
  \/ \E t \in ServiceTargets, ok \in BOOLEAN : CanCrop /\ DrawStroke(t, ok)
  \/ \E i \in 1..Len(pending) : DrawStrokeDone(i)
  \/ \E id \in LayerIds \cup {MissingId} :
       Room(MaxIds + 1, MaxBitmaps) /\ UpdateTextLayer(id, TextSize.w, TextSize.h, TextPadding)
  \/ \E i \in 1..Len(pending) : UpdateTextLayerDone(i)

SpecService == Init /\ [][NextService]_vars

\* SpecOrder: moveLayer over three layers in every order, locked and unlocked
OrderIds == {1, 2, 3}
OrderNames == <<<<"a">>, <<"b">>, <<"c">>>>

InitOrder ==
  \E perm \in [1..3 -> OrderIds], locks \in [OrderIds -> BOOLEAN] :
    /\ \A i, j \in 1..3 : i # j => perm[i] # perm[j]
    /\ Settled([i \in 1..3 |->
                  [NewLayer(perm[i], OrderNames[perm[i]], perm[i], GridOffset(perm[i] - 1))
                     EXCEPT !.locked = locks[perm[i]]]],
               <<Bitmap(200, 100), Bitmap(64, 300), Bitmap(32, 32)>>,
               R(1), RVec(0, 0), [w |-> 400, h |-> 300], NeutralFilter, NoDrawer, "init")

NextOrder ==
  \/ \E id \in OrderIds \cup {MissingId}, d \in {"up", "down"} : MoveLayer(id, d)
  \/ \E id \in OrderIds, b \in BOOLEAN : SetLayerLocked(id, b)

SpecOrder == InitOrder /\ [][NextOrder]_vars

\* SpecRender: the engine operations of Spec on a document that holds one image
\* and has been rendered
InitRender ==
  Settled(<<NewLayer(1, <<"a">>, 1, Vec(0, 0))>>, <<Bitmap(200, 100)>>,
          R(1), RVec(0, 0), [w |-> 400, h |-> 300], NeutralFilter, NoDrawer, "init")

SpecRender == InitRender /\ [][Next]_vars

\* SpecFields: the scale, opacity and rotation setters with values inside and
\* outside their ranges, on a layer that is also duplicated and cropped
ScaleInputs == {-10, 60, NaN}
OpacityInputs == {-50, 150, NaN}
RotationInputs == {-450, 450, 720}

\* the model follows applyCrop's arithmetic only on a scale that is a number
IsNumber(id) == Has(id) => At(id).scale # NaN

\* SpecFields starts an asynchronous operation only when none is awaiting
Idle == pending = <<>>

NextFields ==
  \/ \E v \in ScaleInputs : SetLayerScale(1, v)
  \/ \E v \in OpacityInputs : SetLayerOpacity(1, v)
  \/ \E v \in RotationInputs : SetLayerRotation(1, v)
  \/ Idle /\ Room(MaxIds, MaxBitmaps - 1) /\ DuplicateLayer(1)
  \/ \E i \in 1..Len(pending) : DuplicateLayerDone(i)
  \/ Idle /\ CropRoom(MaxBitmaps - 1) /\ IsNumber(1) /\ ApplyCrop(RectA, 1, TRUE)
  \/ \E i \in 1..Len(pending) : ApplyCropDone(i)

SpecFields == InitRender /\ [][NextFields]_vars

\* SpecCoords: the coordinate transforms over documents with and without a layer,
\* at several zooms, pans and viewport sizes
CoordZooms == {RNorm(1, 10), R(1), RNorm(3, 2), R(8)}
CoordPans == {RVec(0, 0), [x |-> R(5), y |-> RNorm(-7, 2)]}
CoordViews == {[w |-> 400, h |-> 300], [w |-> 401, h |-> 299]}
CoordPoints == {RVec(0, 0), RVec(100, 100), [x |-> R(-3), y |-> RNorm(7, 2)], RVec(401, 299)}

InitCoords ==
  \E z \in CoordZooms, o \in CoordPans, v \in CoordViews :
    \/ Settled(<<NewLayer(1, <<"a">>, 1, Vec(0, 0))>>, <<Bitmap(201, 100)>>,
               z, o, v, NeutralFilter, NoDrawer, "init")
    \/ Settled(<<>>, <<>>, z, o, v, NeutralFilter, NoDrawer, "init")

NextCoords ==
  \/ \E pt \in CoordPoints : ImageToView(pt)
  \/ \E pt \in CoordPoints : ViewToImage(pt)
  \/ DeleteLayer(1)

SpecCoords == InitCoords /\ [][NextCoords]_vars

\* SpecZoom: zoomTo about a pointer and without one, over one image
ZoomInputs == {RNorm(1, 2), R(1), R(2), R(3), R(10)}
ZoomPointers == {NoPointer, Pointer}

InitZoom ==
  \E o \in {RVec(0, 0), RVec(5, -7)} :
    Settled(<<NewLayer(1, <<"a">>, 1, Vec(0, 0))>>, <<Bitmap(200, 100)>>,
            R(1), o, [w |-> 400, h |-> 300], NeutralFilter, NoDrawer, "init")

NextZoom ==
  \/ \E z \in ZoomInputs, p \in ZoomPointers : ZoomToFrom(z, p) /\ TameView'
  \/ DeleteLayer(1)

SpecZoom == InitZoom /\ [][NextZoom]_vars

\* SpecFilter: setFilter over filter states inside and outside the slider ranges
FilterStates ==
  { [NeutralFilter EXCEPT !.brightness = b, !.contrast = c, !.saturation = sa,
                          !.hue = h, !.blur = bl, !.temperature = t] :
      b \in {100, 120}, c \in {100, 80}, sa \in {100, 150}, h \in {0, 30},
      bl \in {0, 2}, t \in {-150, -50, 0, 50, 150} }
    \cup FilterInputs

NextFilter == \E f \in FilterStates : SetFilter(f)

SpecFilter == InitRender /\ [][NextFilter]_vars

\* SpecHit: hitTestLayer over three overlapping layers, shown and hidden, one
\* rotated and scaled, at two zooms
HitPoints == {RVec(x, y) : x \in {60, 150, 200, 260, 330}, y \in {20, 100, 150, 200, 280}}

InitHit ==
  \E v1, v2, v3 \in BOOLEAN, ro \in {0, 90}, sc \in {10, 5}, z \in {R(1), RNorm(1, 2)} :
    Settled(<<[NewLayer(1, <<"a">>, 1, Vec(0, 0))
                 EXCEPT !.visible = v1, !.rotation = ro, !.scale = sc],
              [NewLayer(2, <<"b">>, 2, Vec(50, -20)) EXCEPT !.visible = v2],
              [NewLayer(3, <<"c">>, 3, Vec(30, 130)) EXCEPT !.visible = v3]>>,
            <<Bitmap(200, 100), Bitmap(64, 300), Bitmap(100, 100)>>,
            z, RVec(0, 0), [w |-> 400, h |-> 300], NeutralFilter, NoDrawer, "init")

NextHit ==
  \/ \E pt \in HitPoints : HitTestLayer(pt)
  \/ MoveLayer(1, "up")
  \/ \E id \in {2, 3} : DeleteLayer(id)

SpecHit == InitHit /\ [][NextHit]_vars

\* SpecStage: the crop tool of the stage over one image, large or small, at zoom
\* 1 or 2: selecting the tool and dragging the rectangle by its handles
StagePointers ==
  {RVec(200, 88), RVec(143, 122), RVec(260, 150), RVec(230, 150), RVec(150, 150)}
StageRatios == {Free, [n |-> 1, d |-> 1]}
StageSizes == {10, 500}

InitStage ==
  \E bm \in {Bitmap(200, 100), Bitmap(40, 30)}, z \in {R(1), R(2)} :
    Settled(<<NewLayer(1, <<"a">>, 1, Vec(0, 0))>>, <<bm>>,
            z, RVec(0, 0), [w |-> 400, h |-> 300], NeutralFilter, NoDrawer, "init")

\* no handler is about to resume and no effect is about to run
Quiet == ~UploadResuming /\ ~ConfirmResuming /\ ~EffectPending

\* the model follows the rectangle while its unrotated box lies inside the image
\* and its rotation stays within MaxTurn
TameCrop ==
  crop # NoCrop =>
    /\ Abs(crop.rotation) <= MaxTurn
    /\ RLe(R(0), crop.x) /\ RLe(RAdd(crop.x, crop.w), R(imgSize.w))
    /\ RLe(R(0), crop.y) /\ RLe(RAdd(crop.y, crop.h), R(imgSize.h))

\* the model follows a move drag to the positions on the grid of CropStep image
\* pixels
OnGrid ==
  (interaction # NoSession /\ interaction.mode = "move") =>
    \A c \in {crop.x, crop.y} : c.d = 1 /\ c.n % CropStep = 0

\* the model follows the drags that start on a rectangle of the initial size
InitialSize ==
  /\ interaction # NoSession
  /\ interaction.startCrop.w = DefaultCrop(imgSize, RNorm(6, 10)).w
  /\ interaction.startCrop.h = DefaultCrop(imgSize, RNorm(6, 10)).h

\* the model follows a rotate drag to the pointer positions on the axes through
\* the centre of the rectangle
OnAxes(viewPt) ==
  (interaction # NoSession /\ interaction.mode = "rotate") =>
    LET start == interaction.startCrop
        cx == RAdd(start.x, RDiv(start.w, R(2)))
        cy == RAdd(start.y, RDiv(start.h, R(2)))
        p == viewToImage(Transforms, viewPt)
        q == interaction.startPointerImg
    IN  /\ p # Null
        /\ OnAxis(RSub(p.y, cy), RSub(p.x, cx))
        /\ OnAxis(RSub(q.y, cy), RSub(q.x, cx))

\* handleCropConfirm up to its await: the target is the topmost layer
HandleCropConfirm(ctxOk) ==
  /\ crop # NoCrop
  /\ Len(layers) # 0
  /\ ApplyCrop(crop, layers[Len(layers)].id, ctxOk)

NextStage ==
  \/ Quiet /\ ~cropEnabled /\ SelectCropTool
  \/ Quiet /\ cropEnabled /\ DeselectCropTool
  \/ StageEffect
  \/ \E pt \in StagePointers : Quiet /\ interaction = NoSession /\ OnCropMouseDown(pt)
  \/ \E pt \in StagePointers :
       Quiet /\ InitialSize /\ OnAxes(pt) /\ OnCropMouseMove(pt) /\ TameCrop' /\ OnGrid'
  \/ Quiet /\ interaction # NoSession /\ OnCropMouseUp

SpecStage == InitStage /\ [][NextStage]_vars

\* SpecPanel: the crop tool without drags: selecting the tool, the panel's ratio
\* and size fields, uploading another image, committing the crop
PanelImages == {Bitmap(200, 100), Bitmap(40, 30)}

InitPanel ==
  \E bm \in PanelImages :
    Settled(<<NewLayer(1, <<"a">>, 1, Vec(0, 0))>>, <<bm>>,
            R(1), RVec(0, 0), [w |-> 400, h |-> 300], NeutralFilter, NoDrawer, "init")

\* the model follows the panel over the images as uploaded
AsUploaded == \E bm \in PanelImages : imgSize = [w |-> bm.w, h |-> bm.h]

NextPanel ==
  \/ Quiet /\ Idle /\ ~cropEnabled /\ SelectCropTool
  \/ Quiet /\ Idle /\ cropEnabled /\ DeselectCropTool
  \/ StageEffect
  \/ \E r \in StageRatios : Quiet /\ Idle /\ AsUploaded /\ SetAspectRatio(r) /\ TameCrop'
  \/ \E n \in StageSizes : Quiet /\ Idle /\ AsUploaded /\ HandleWidthChange(n) /\ TameCrop'
  \/ \E n \in StageSizes : Quiet /\ Idle /\ AsUploaded /\ HandleHeightChange(n) /\ TameCrop'
  \/ \E bm \in PanelImages : Quiet /\ Idle /\ CanCreate /\ LoadImage(bm.w, bm.h)
  \/ \E i \in 1..Len(pending) : AddImageDone(i)
  \/ HandleUploadDone
  \/ \E ok \in BOOLEAN : Quiet /\ Idle /\ CanCrop /\ cropEnabled /\ HandleCropConfirm(ok)
  \/ \E i \in 1..Len(pending) : ApplyCropDone(i)
  \/ HandleCropConfirmDone

SpecPanel == InitPanel /\ [][NextPanel]_vars

\* SpecOffsets: a caller that keeps one offset object, the offset of a layer in a
\* history snapshot, and passes it to addImage and addEmptyLayer as
\* restoreSnapshot does; the layers are then moved and placed
InitOffsets ==
  /\ layers = <<NewLayer(1, <<"a">>, 1, Vec(0, 0))>>
  /\ bitmaps = <<Bitmap(200, 100)>>
  /\ nextId = 2
  /\ zoom = R(1)
  /\ offset = RVec(0, 0)
  /\ view = [w |-> 400, h |-> 300]
  /\ imgSize = recomputeSize(layers, bitmaps)
  /\ filter = NeutralFilter
  /\ overlayDrawer = NoDrawer
  /\ pending = <<>>
  /\ frame = Render(layers, bitmaps, zoom, offset, view, imgSize, filter, overlayDrawer)
  /\ cropEnabled = FALSE
  /\ crop = NoCrop
  /\ interaction = NoSession
  /\ aspectRatio = InitialAspect
  /\ isLocked = FALSE
  /\ callerOffsets = <<CallerOffset(Vec(10, 0))>>
  /\ last = Op("init", NoId, NoId)

\* room for two more layers beside the first
OffsetRoom == Room(MaxIds + 1, MaxBitmaps)

NextOffsets ==
  \/ OffsetRoom /\ AddImage(64, 48, <<"s">>, Ref(1))
  \/ \E i \in 1..Len(pending) : AddImageDone(i)
  \/ \E ok \in BOOLEAN : OffsetRoom /\ AddEmptyLayer(32, 32, <<"e">>, Ref(1), ok)
  \/ \E i \in 1..Len(pending) : AddEmptyLayerDone(i)
  \/ \E id \in 1..(MaxIds + 1) : InCoords(id, 5, 5) /\ MoveLayerOffset(id, 5, 5)
  \/ \E id \in 1..(MaxIds + 1) : SetLayerOffset(id, Vec(0, 0))

SpecOffsets == InitOffsets /\ [][NextOffsets]_vars

\* ------------------------------------------------------------------ claims
BitmapW(l) == bitmaps[l.bitmap].w
BitmapH(l) == bitmaps[l.bitmap].h

\* C2: in every observable state imgSize is the maximum bitmap width and height
\* over the layers in the list, and (0,0) when the list is empty.
C2_ImgSizeIsMaxOverLayers ==
  IF Len(layers) = 0
  THEN imgSize = [w |-> 0, h |-> 0]
  ELSE /\ \A i \in 1..Len(layers) : BitmapW(layers[i]) <= imgSize.w /\ BitmapH(layers[i]) <= imgSize.h
       /\ \E i \in 1..Len(layers) : BitmapW(layers[i]) = imgSize.w
       /\ \E i \in 1..Len(layers) : BitmapH(layers[i]) = imgSize.h

LoadsInFlight(pend) == {k \in 1..Len(pend) : pend[k].fromLoad}

\* C4: loadImage replaces the layer set atomically when the decode completes:
\* the call itself removes no layer, and when the last in-flight loadImage
\* completes the list holds exactly one layer.
C4_LoadImageAtomic ==
  [][/\ (last'.op = "loadImage" => layers' = layers)
     /\ (last'.op = "addImageDone" /\ last'.arg.fromLoad /\ LoadsInFlight(pending') = {}
           => Len(layers') = 1)]_vars

\* the operations of C1 and the layer each call names
LockedOps ==
  {"moveLayerOffset", "setLayerOffset", "setLayerScale", "setLayerRotation",
   "setLayerOpacity", "setLayerBlendMode", "renameLayer", "applyCrop", "moveLayer",
   "duplicateLayer", "deleteLayer"}

\* C1: an operation other than setLayerLocked and setLayerVisibility that is called
\* with the id of a locked layer leaves that layer in the list with every field
\* (and its bitmap) unchanged.
C1_LockedLayerUnchanged ==
  [][\A i \in 1..Len(layers) :
       (/\ layers[i].locked
        /\ last'.op \in LockedOps
        /\ (last'.id = layers[i].id \/ (last'.id = NoId /\ i = Len(layers))))
         => /\ \E j \in 1..Len(layers') : layers'[j] = layers[i]
            /\ bitmaps'[layers[i].bitmap] = bitmaps[layers[i].bitmap]]_vars

\* C3: after any sequence of view operations, addImage and applyCrop the zoom is
\* positive and within the clamp range [0.1, 8].
C3_ZoomWithinClampRange ==
  /\ RLt(R(0), zoom)
  /\ RLe(RNorm(ZoomMinTenths, 10), zoom)
  /\ RLe(zoom, R(ZoomMax))

Exported == last.op = "exportImage" /\ ~last.arg.threw

\* what a drawImage call composites with, apart from its geometry
Compositing(d) ==
  [bitmap |-> d.bitmap, filter |-> d.filter, globalAlpha |-> d.globalAlpha,
   globalCompositeOperation |-> d.globalCompositeOperation]

\* C5: exportImage draws the visible layers in the z-order of render() and with
\* the filter chain, opacity and blend mode render() applies to each of them.
C5_ExportMatchesRender ==
  Exported =>
    /\ Len(last.arg.draws) = Len(frame.draws)
    /\ \A k \in 1..Len(frame.draws) :
         Compositing(last.arg.draws[k]) = Compositing(frame.draws[k])

\* the extent of a layer's rotated, scaled rectangle along one axis, in twentieths:
\* centre -/+ (|cos| * halfW + |sin| * halfH) for x, with cos and sin swapped for y
Extent20(l, axis) ==
  LET w == BitmapW(l) * l.scale
      h == BitmapH(l) * l.scale
      c == Abs(Cos90(l.rotation))
      s == Abs(Sin90(l.rotation))
      centre == IF axis = "x" THEN 20 * l.offset.x + 10 * BitmapW(l)
                ELSE 20 * l.offset.y + 10 * BitmapH(l)
      half == IF axis = "x" THEN c * w + s * h ELSE s * w + c * h
  IN  [lo |-> centre - half, hi |-> centre + half]

VisibleLayers == {layers[i] : i \in {j \in 1..Len(layers) : layers[j].visible}}

\* the union bounding box of the visible layers along one axis, in twentieths
UnionSize20(axis) ==
  SetMax({Extent20(l, axis).hi : l \in VisibleLayers})
    - SetMin({Extent20(l, axis).lo : l \in VisibleLayers})

\* C6 as claimed: the export canvas is exactly as wide and as high as the union
\* bounding box of the visible layers' rotated, scaled rectangles.
C6_CanvasIsBoundingBox ==
  Exported =>
    /\ 20 * last.arg.canvas.w = UnionSize20("x")
    /\ 20 * last.arg.canvas.h = UnionSize20("y")

\* C6 amended: the export canvas is the union bounding box of the visible layers'
\* rotated, scaled rectangles plus a padding of 10 on every side, rounded up to
\* whole pixels; invisible layers do not contribute.
C6_CanvasIsPaddedBoundingBox ==
  Exported =>
    /\ last.arg.canvas.w = CeilDiv(UnionSize20("x") + 20 * 2 * ExportPadding, 20)
    /\ last.arg.canvas.h = CeilDiv(UnionSize20("y") + 20 * 2 * ExportPadding, 20)

\* an export with an invisible layer beside a visible, rotated, scaled one
C6_Witness ==
  /\ Exported
  /\ \E i \in 1..Len(layers) : ~layers[i].visible
  /\ \E i \in 1..Len(layers) :
       layers[i].visible /\ layers[i].rotation = 90 /\ layers[i].scale = 25

\* C7: every layer that addImage places without an explicit offset gets an offset
\* different from that of every layer placed that way before it (under SpecGrid
\* every layer is placed that way and none is moved afterwards).
C7_AutoPlacedOffsetsDistinct ==
  \A i, j \in 1..Len(layers) : i # j => layers[i].offset # layers[j].offset

CropDone == last.op = "applyCropDone"

\* C8: when applyCrop completes, the target layer has offset (0,0), scale 1 and
\* rotation 0 and holds the new bitmap, the view has zoom 1 and pan (0,0), imgSize
\* is the maximum over the layers' bitmaps with the new bitmap counted, and every
\* other layer is as it was.
C8_CropResetsTargetAndView ==
  [][last'.op = "applyCropDone" =>
       /\ \A j \in 1..Len(layers') :
            layers'[j].id = last'.id =>
              /\ layers'[j].offset = Vec(0, 0)
              /\ layers'[j].scale = 10
              /\ layers'[j].rotation = 0
              /\ layers'[j].bitmap = last'.arg.bitmap
       /\ zoom' = R(1)
       /\ offset' = RVec(0, 0)
       /\ Len(layers') # 0 =>
            /\ imgSize'.w = SetMax({bitmaps'[layers'[j].bitmap].w : j \in 1..Len(layers')})
            /\ imgSize'.h = SetMax({bitmaps'[layers'[j].bitmap].h : j \in 1..Len(layers')})
       /\ Len(layers') = Len(layers)
       /\ \A j \in 1..Len(layers) : layers[j].id # last'.id => layers'[j] = layers[j]]_vars

\* a crop completed on a moved, scaled, rotated layer under a zoomed, panned view,
\* beside another layer
C8_Witness ==
  /\ CropDone
  /\ Has(last.id)
  /\ Len(layers) = 2
  /\ last.arg.before.target.offset # Vec(0, 0)
  /\ last.arg.before.target.scale # 10
  /\ last.arg.before.target.rotation # 0
  /\ last.arg.before.zoom # R(1)
  /\ last.arg.before.offset # RVec(0, 0)

\* the part of a layer's bitmap that a rectangle covers in image space, for a layer
\* and a rectangle that are not rotated: a world coordinate X lies at
\* (X - centre) / scale + size / 2 in the bitmap
Covered(l, size, rect) ==
  LET sc == RNorm(l.scale, 10)
      ToLocal(X, o, len) ==
        RAdd(RDiv(RSub(X, RAdd(R(o), RNorm(len, 2))), sc), RNorm(len, 2))
      x0 == ToLocal(rect.x, l.offset.x, size.w)
      y0 == ToLocal(rect.y, l.offset.y, size.h)
      x1 == ToLocal(RAdd(rect.x, rect.w), l.offset.x, size.w)
      y1 == ToLocal(RAdd(rect.y, rect.h), l.offset.y, size.h)
  IN  [x |-> x0, y |-> y0, w |-> RSub(x1, x0), h |-> RSub(y1, y0)]

\* the world bounding rectangle of an unrotated layer
WorldBounds(l, size) ==
  LET sc == RNorm(l.scale, 10)
      cx == RAdd(R(l.offset.x), RNorm(size.w, 2))
      cy == RAdd(R(l.offset.y), RNorm(size.h, 2))
      hw == RMul(RNorm(size.w, 2), sc)
      hh == RMul(RNorm(size.h, 2), sc)
  IN  Rect(RSub(cx, hw), RSub(cy, hh), RMul(R(size.w), sc), RMul(R(size.h), sc), 0)

Unrotated == last.arg.src.layer.rotation = 0 /\ last.arg.src.rect.rotation = 0

\* C9 as claimed: an unrotated crop of an unrotated layer yields a bitmap of
\* exactly rect.w x rect.h pixels.
C9_BitmapIsRectSize ==
  (CropDone /\ Unrotated) =>
    /\ R(bitmaps[last.arg.bitmap].w) = last.arg.src.rect.w
    /\ R(bitmaps[last.arg.bitmap].h) = last.arg.src.rect.h

\* C9 amended: an unrotated crop of an unrotated layer yields a bitmap of
\* max(1, floor(rect.w)) x max(1, floor(rect.h)) pixels, which is rect.w x rect.h
\* for whole numbers of at least 1; its source region is exactly the part of the
\* bitmap the rectangle covers in image space, and the whole bitmap when the
\* rectangle is the layer's world bounding rectangle.
C9_BitmapIsFlooredRectOfCoveredRegion ==
  (CropDone /\ Unrotated) =>
    LET rect == last.arg.src.rect
        l == last.arg.src.layer
        size == last.arg.src.size
        new == bitmaps[last.arg.bitmap]
    IN  /\ new.w = (IF RLt(rect.w, R(1)) THEN 1 ELSE RFloor(rect.w))
        /\ new.h = (IF RLt(rect.h, R(1)) THEN 1 ELSE RFloor(rect.h))
        /\ (rect.w.d = 1 /\ rect.w.n >= 1) => R(new.w) = rect.w
        /\ (rect.h.d = 1 /\ rect.h.n >= 1) => R(new.h) = rect.h
        /\ last.arg.src.from = Covered(l, size, rect)
        /\ rect = WorldBounds(l, size) =>
             last.arg.src.from = [x |-> R(0), y |-> R(0), w |-> R(size.w), h |-> R(size.h)]

\* the crop of the 200x100 layer at offset (0,0), scale 1 with {50, 25, 100, 50}:
\* a 100x50 bitmap drawn from [50,150) x [25,75)
C9_Witness ==
  /\ CropDone
  /\ Unrotated
  /\ last.arg.src.rect = RectA
  /\ last.arg.src.size = [w |-> 200, h |-> 100]
  /\ last.arg.src.layer.offset = Vec(0, 0)
  /\ last.arg.src.layer.scale = 10
  /\ last.arg.src.from = [x |-> R(50), y |-> R(25), w |-> R(100), h |-> R(50)]
  /\ bitmaps[last.arg.bitmap].w = 100
  /\ bitmaps[last.arg.bitmap].h = 50

\* C10: applyCrop called with no layers, with an id that matches no layer, or
\* without a drawing context changes neither the layer list, any layer or bitmap,
\* zoom, pan, imgSize nor the overlay callback, and schedules nothing.
C10_CropNoOp ==
  [][(/\ last'.op = "applyCrop"
      /\ \/ Len(layers) = 0
         \/ (last'.id # NoId /\ ~Has(last'.id))
         \/ ~last'.arg.ctxOk)
       => UNCHANGED <<layers, bitmaps, zoom, offset, imgSize, overlayDrawer, pending>>]_vars

\* applyCrop without a drawing context on an existing, unlocked layer, with the
\* view zoomed and the overlay registered
C10_Witness ==
  /\ last.op = "applyCrop"
  /\ ~last.arg.ctxOk
  /\ Has(last.id)
  /\ ~At(last.id).locked
  /\ zoom # R(1)
  /\ overlayDrawer # NoDrawer

\* the commands of C11 and whether a call of one threw
Commands == {"exportImage", "cropImage", "drawStroke", "updateTextLayer", "applyCrop"}
Threw(o) == o.op # "applyCrop" /\ o.arg.threw

\* C11: a command called with no layers, or with the id of a layer that is not in
\* the list, returns normally: it does not throw. (A call that throws changes
\* nothing, so the state after it shows the precondition failure it met.)
C11_PreconditionFailuresDoNotThrow ==
  (/\ last.op \in Commands
   /\ \/ Len(layers) = 0
      \/ (last.id # NoId /\ ~Has(last.id)))
    => ~Threw(last)

\* C12: moveLayer(id, 'up') on an unlocked layer below the top moves it one place
\* up, and moveLayer(id, 'down') called next restores the order; 'up' on the top
\* layer and 'down' on the bottom layer leave the order unchanged. (Every
\* moveLayer step is the step MoveIn computes, so MoveIn on the state after the
\* step is what the next call does.)
C12_MoveUpThenDownRestoresOrder ==
  [][last'.op = "moveLayer" =>
       LET id == last'.id
           idx == IndexOf(layers, id)
       IN  /\ layers' = MoveIn(layers, id, last'.arg)
           /\ (last'.arg = "up" /\ idx # 0 /\ idx < Len(layers) /\ ~layers[idx].locked) =>
                /\ layers'[idx + 1] = layers[idx]
                /\ layers' # layers
                /\ MoveIn(layers', id, "down") = layers
           /\ (last'.arg = "up" /\ idx = Len(layers)) => layers' = layers
           /\ (last'.arg = "down" /\ idx = 1) => layers' = layers]_vars

\* the middle layer, unlocked, has just been moved to the top
C12_Witness ==
  /\ last.op = "moveLayer"
  /\ last.arg = "up"
  /\ Has(last.id)
  /\ IndexOf(layers, last.id) = 3
  /\ ~At(last.id).locked
  /\ frame.draws[3].bitmap = At(last.id).bitmap

\* C13: when duplicateLayer completes, the new layer is on top with a fresh id and
\* its own open bitmap of the source's pixel size, it has the offset, scale,
\* rotation, opacity, blendMode and visibility the source had when duplicateLayer
\* was called, and it is unlocked.
C13_DuplicateCopiesFieldsAtCall ==
  last.op = "duplicateLayerDone" =>
    LET new == layers[Len(layers)]
        src == last.arg.called
    IN  /\ new.id = last.id
        /\ \A j \in 1..(Len(layers) - 1) : layers[j].id # new.id /\ layers[j].bitmap # new.bitmap
        /\ new.bitmap # src.bitmap
        /\ ~bitmaps[new.bitmap].closed
        /\ bitmaps[new.bitmap].w = bitmaps[src.bitmap].w
        /\ bitmaps[new.bitmap].h = bitmaps[src.bitmap].h
        /\ new.offset = src.offset
        /\ new.scale = src.scale
        /\ new.rotation = src.rotation
        /\ new.opacity = src.opacity
        /\ new.blendMode = src.blendMode
        /\ new.visible = src.visible
        /\ ~new.locked

\* C14: no layer in the list holds a released bitmap, and every bitmap the engine
\* has created is either held by a layer in the list or released, whatever ran
\* while an operation was awaiting.
C14_BitmapsHeldOrReleased ==
  /\ \A i \in 1..Len(layers) : ~bitmaps[layers[i].bitmap].closed
  /\ \A k \in 1..Len(bitmaps) : bitmaps[k].closed \/ k \in Handles(layers)

\* C15: the canvas shows the current state: starting from a rendered document,
\* every operation that changes the layer list, a layer, the view or the filter
\* state has called render() on the state it leaves.
C15_EveryChangeIsRendered ==
  frame = Render(layers, bitmaps, zoom, offset, view, imgSize, filter, overlayDrawer)

\* C16: after setLayerRotation(id, r) on an unlocked layer the stored rotation is
\* congruent to r modulo 360 and lies in [0, 360).
C16_RotationNormalized ==
  (last.op = "setLayerRotation" /\ Has(last.id) /\ ~At(last.id).locked) =>
    /\ (At(last.id).rotation - last.arg) % 360 = 0
    /\ 0 <= At(last.id).rotation
    /\ At(last.id).rotation < 360

\* C17: every layer's scale lies in [0.1, 5] and its opacity in [0, 1].
C17_ScaleAndOpacityInRange ==
  \A i \in 1..Len(layers) :
    /\ ScaleMinTenths <= layers[i].scale
    /\ layers[i].scale <= ScaleMaxTenths
    /\ 0 <= layers[i].opacity
    /\ layers[i].opacity <= 100

\* C18: against one snapshot of zoom, pan, viewport size and imgSize, with a
\* layer, a point mapped by imageToView and back by viewToImage, or by
\* viewToImage and back by imageToView, is the point itself, and imageToView is
\* viewportCenter + pan - imgSize * zoom / 2 + p * zoom; without layers both
\* functions return null.
C18_CoordinateRoundTrip ==
  last.op \in {"imageToView", "viewToImage"} =>
    IF Len(layers) = 0
    THEN last.arg.to = Null
    ELSE /\ last.arg.to # Null
         /\ last.arg.back = last.arg.pt
         /\ last.op = "imageToView" =>
              /\ last.arg.to.x =
                   RAdd(RSub(RAdd(RNorm(view.w, 2), offset.x),
                             RDiv(RMul(R(imgSize.w), zoom), R(2))),
                        RMul(last.arg.pt.x, zoom))
              /\ last.arg.to.y =
                   RAdd(RSub(RAdd(RNorm(view.h, 2), offset.y),
                             RDiv(RMul(R(imgSize.h), zoom), R(2))),
                        RMul(last.arg.pt.y, zoom))

\* a fractional point mapped to the image and back at zoom 3/2 under a pan
C18_Witness ==
  /\ last.op = "viewToImage"
  /\ Len(layers) = 1
  /\ zoom = RNorm(3, 2)
  /\ offset # RVec(0, 0)
  /\ last.arg.pt = [x |-> R(-3), y |-> RNorm(7, 2)]
  /\ last.arg.to # last.arg.pt
  /\ last.arg.back = last.arg.pt

InZoomRange(z) == RLe(RNorm(ZoomMinTenths, 10), z) /\ RLe(z, R(ZoomMax))

\* a zoomTo(z1, p) with a layer and a pointer, from a zoom and to a zoom in [0.1, 8]
ZoomedAbout(o) ==
  /\ o.op = "zoomTo"
  /\ o.arg.pointer # NoPointer
  /\ InZoomRange(o.arg.zoom)
  /\ InZoomRange(o.arg.from.zoom)

\* C19: with a layer, zoomTo(z1, p) followed by zoomTo(z0, p) with the same
\* pointer, z0 the zoom before the first call and both in [0.1, 8], returns the
\* pan offset (and the zoom) to the value before the first call.
C19_ZoomRoundTripRestoresPan ==
  [][(/\ Len(layers) # 0
      /\ ZoomedAbout(last)
      /\ last'.op = "zoomTo"
      /\ last'.arg.pointer = last.arg.pointer
      /\ last'.arg.zoom = last.arg.from.zoom)
       => /\ offset' = last.arg.from.offset
          /\ zoom' = last.arg.from.zoom]_vars

\* zoomTo(2, (100,100)) from zoom 1 has moved the pan, and zoomTo(1, (100,100))
\* has just been called
C19_Witness ==
  /\ Len(layers) # 0
  /\ last.op = "zoomTo"
  /\ last.arg.pointer = Pointer
  /\ last.arg.zoom = R(1)
  /\ last.arg.from.zoom = R(2)
  /\ last.arg.from.offset # offset
  /\ zoom = R(1)

\* C20: with every filter field at its neutral value the filter chain built in
\* render() is empty, and each visible layer is drawn with no filter operation
\* (the context filter 'none').
C20_NeutralFilterDrawsUnfiltered ==
  filter = NeutralFilter =>
    /\ RenderFilters(filter) = <<>>
    /\ \A k \in 1..Len(frame.draws) : frame.draws[k].filter = <<>>

\* the neutral filter has just been set and a layer has been drawn with it
C20_Witness ==
  /\ last.op = "setFilter"
  /\ last.arg = NeutralFilter
  /\ filter = NeutralFilter
  /\ Len(frame.draws) > 0

\* the names of the operations of a chain, in order
OpNames(chain) == [i \in 1..Len(chain) |-> chain[i].op]

FilterOrder ==
  <<"brightness", "sepia", "saturate", "hue-rotate", "contrast", "saturate",
    "hue-rotate", "blur">>

RECURSIVE IsSubsequence(_, _)
IsSubsequence(a, b) ==
  IF a = <<>> THEN TRUE
  ELSE IF b = <<>> THEN FALSE
  ELSE IF Head(a) = Head(b) THEN IsSubsequence(Tail(a), Tail(b))
  ELSE IsSubsequence(a, Tail(b))

\* C21: for every filter state the operations render() emits appear in the
\* relative order brightness, sepia, saturate, hue-rotate (temperature),
\* contrast, saturate, hue-rotate (hue), blur: the chain of every drawn layer is
\* a subsequence of that order.
C21_FilterChainOrder ==
  /\ IsSubsequence(OpNames(RenderFilters(filter)), FilterOrder)
  /\ \A k \in 1..Len(frame.draws) :
       IsSubsequence(OpNames(frame.draws[k].filter), FilterOrder)

\* a layer has been drawn with all eight operations present
C21_Witness ==
  /\ last.op = "setFilter"
  /\ Len(frame.draws) > 0
  /\ OpNames(frame.draws[1].filter) = FilterOrder

Contains(chain, e) == \E i \in 1..Len(chain) : chain[i] = e

\* the temperature triad computed from the value t, magnitudes in hundredths
HasTriad(chain, t) ==
  /\ Contains(chain, FilterOp("sepia", IF t > 0 THEN Abs(t) * 60 ELSE Abs(t) * 25))
  /\ Contains(chain, FilterOp("saturate", 10000 + t * 30))
  /\ Contains(chain, FilterOp("hue-rotate", t * (-40)))

\* C22 as stated: for every temperature other than 0 the chain holds the
\* sepia, saturate and hue-rotate operations computed from the temperature
\* value as given in the filter state.
C22_TriadFromTemperatureAsGiven ==
  filter.temperature # 0 =>
    \A k \in 1..Len(frame.draws) : HasTriad(frame.draws[k].filter, filter.temperature)

\* C22: for every temperature other than 0 the chain holds the sepia, saturate
\* and hue-rotate operations computed from the temperature clamped to
\* [-100, 100].
C22_TriadFromClampedTemperature ==
  filter.temperature # 0 =>
    \A k \in 1..Len(frame.draws) :
      HasTriad(frame.draws[k].filter, clamp(filter.temperature, -100, 100))

\* a layer has been drawn with a temperature beyond the clamp range
C22_Witness ==
  /\ last.op = "setFilter"
  /\ filter.temperature = 150
  /\ Len(frame.draws) > 0

\* C30: while a layer is locked, no moveLayer call changes its z-order relative
\* to any other layer, whether the call names the locked layer or a neighbour.
C30_LockedLayerKeepsZOrder ==
  [][last'.op = "moveLayer" =>
       \A i, j \in 1..Len(layers) :
         layers[i].locked =>
           ((i < j) <=> (IndexOf(layers', layers[i].id) < IndexOf(layers', layers[j].id)))]_vars

\* the point lies in the rectangle centred at c with half-extents hw and hh,
\* rotated by rot: its offset from c, turned back by rot, is within the extents
InRotatedRect(p, c, hw, hh, rot) ==
  LET ddx == RSub(p.x, c.x)
      ddy == RSub(p.y, c.y)
      u == RAdd(RMul(ddx, R(Cos90(rot))), RMul(ddy, R(Sin90(rot))))
      v == RSub(RMul(ddy, R(Cos90(rot))), RMul(ddx, R(Sin90(rot))))
  IN  RLe(RNorm(-hw.n, hw.d), u) /\ RLe(u, hw) /\ RLe(RNorm(-hh.n, hh.d), v) /\ RLe(v, hh)

\* the indices of the layers whose rectangle contains the image point
Covering(p) ==
  {i \in 1..Len(layers) :
     InRotatedRect(p,
       [x |-> RAdd(R(layers[i].offset.x), RNorm(BitmapW(layers[i]), 2)),
        y |-> RAdd(R(layers[i].offset.y), RNorm(BitmapH(layers[i]), 2))],
       RNorm(BitmapW(layers[i]) * layers[i].scale, 20),
       RNorm(BitmapH(layers[i]) * layers[i].scale, 20),
       layers[i].rotation)}

Matching(p) == {i \in Covering(p) : layers[i].visible}

\* C27: hitTestLayer returns the id of the topmost visible layer whose rotated,
\* scaled rectangle contains the image-space point, and none when no visible
\* layer contains it or there are no layers.
C27_HitTestTopmostVisible ==
  last.op = "hitTestLayer" =>
    IF Len(layers) = 0 THEN last.id = NoId
    ELSE LET M == Matching(viewToImage(Transforms, last.arg))
         IN  IF M = {} THEN last.id = NoId ELSE last.id = layers[SetMax(M)].id

\* a hit on a layer that lies below a hidden layer containing the point and
\* above another visible layer containing it
C27_Witness ==
  /\ last.op = "hitTestLayer"
  /\ last.id # NoId
  /\ \E i \in Covering(viewToImage(Transforms, last.arg)) :
       i > IndexOf(layers, last.id) /\ ~layers[i].visible
  /\ Cardinality(Matching(viewToImage(Transforms, last.arg))) > 1

\* C23: whenever a crop rectangle exists, its w and h are both at least the
\* minimum size 32.
C23_CropAtLeastMinimumSize ==
  crop # NoCrop => RLe(R(MinCropSize), crop.w) /\ RLe(R(MinCropSize), crop.h)

\* the image-space position of the edge midpoint or corner opposite the handle
AnchorPoint(rect, handle) ==
  LET a == fromLocalOffset(anchor(handle, RDiv(rect.w, R(2)), RDiv(rect.h, R(2))), rect)
  IN  [x |-> RAdd(RAdd(rect.x, RDiv(rect.w, R(2))), a.x),
       y |-> RAdd(RAdd(rect.y, RDiv(rect.h, R(2))), a.y)]

\* a step of a resize drag has just placed the rectangle
Resizing ==
  /\ last.op = "onCropMouseMove"
  /\ last.arg.img # Null
  /\ interaction # NoSession
  /\ interaction.mode = "resize"

\* C24: during a resize drag the edge or corner opposite the dragged handle stays
\* at the image-space position it had at drag start, for every pointer position.
C24_ResizeKeepsAnchor ==
  Resizing =>
    AnchorPoint(crop, interaction.handle) = AnchorPoint(interaction.startCrop, interaction.handle)

\* C25: during a resize drag the pointer is converted into the local frame of the
\* rectangle captured at drag start with the mapping toLocal uses (-rotation).
C25_ResizeUsesInverseRotation ==
  Resizing =>
    toLocalFromStart(last.arg.img, interaction.startCrop)
      = toLocal(last.arg.img, interaction.startCrop)

\* C28: crop hit-testing returns 'rotate' for the pointer position at which the
\* overlay draws the rotate handle, at every zoom.
C28_RotateHandleHitWhereDrawn ==
  (crop # NoCrop /\ Len(layers) # 0) =>
    hitTest(crop, Transforms, zoom, rotateHandleView(crop, Transforms)).mode = "rotate"

\* the pointer of the last mouse down in the local frame of the rectangle
DownLocal ==
  LET p == viewToImage(Transforms, last.arg.pt)
      cx == RAdd(crop.x, RDiv(crop.w, R(2)))
      cy == RAdd(crop.y, RDiv(crop.h, R(2)))
      dx == RSub(p.x, cx)
      dy == RSub(p.y, cy)
  IN  CASE crop.rotation % 360 = 0 -> [x |-> dx, y |-> dy]
        [] crop.rotation % 360 = 90 -> [x |-> dy, y |-> RSub(R(0), dx)]
        [] crop.rotation % 360 = 180 -> [x |-> RSub(R(0), dx), y |-> RSub(R(0), dy)]
        [] OTHER -> [x |-> RSub(R(0), dy), y |-> dx]

\* |a - b| <= t / zoom
Within(a, b, t) == RLe(RMul(RAbs(RSub(a, b)), zoom), R(t))

\* the pointer lies within 14 / zoom of the point 32 / zoom above the top centre
OnRotateHandle ==
  LET p == DownLocal
      top == RSub(RSub(R(0), RDiv(crop.h, R(2))), RDiv(R(RotateHandleOffset), zoom))
      ex == RMul(p.x, zoom)
      ey == RMul(RSub(p.y, top), zoom)
  IN  RLe(RAdd(RMul(ex, ex), RMul(ey, ey)), R(14 * 14))

\* the corners within the tolerance of the pointer on both axes
CornersNear ==
  LET p == DownLocal
      hw == RDiv(crop.w, R(2))
      hh == RDiv(crop.h, R(2))
      xs == [nw |-> RSub(R(0), hw), ne |-> hw, se |-> hw, sw |-> RSub(R(0), hw)]
      ys == [nw |-> RSub(R(0), hh), ne |-> RSub(R(0), hh), se |-> hh, sw |-> hh]
  IN  {c \in {"nw", "ne", "se", "sw"} :
         Within(p.x, xs[c], HandleTol) /\ Within(p.y, ys[c], HandleTol)}

\* the edges within the tolerance of the pointer, strictly between their ends
EdgesNear ==
  LET p == DownLocal
      hw == RDiv(crop.w, R(2))
      hh == RDiv(crop.h, R(2))
      alongX == RLt(RAbs(p.x), hw)
      alongY == RLt(RAbs(p.y), hh)
  IN  {e \in {"n", "e", "s", "w"} :
         \/ e = "n" /\ Within(p.y, RSub(R(0), hh), HandleTol) /\ alongX
         \/ e = "s" /\ Within(p.y, hh, HandleTol) /\ alongX
         \/ e = "e" /\ Within(p.x, hw, HandleTol) /\ alongY
         \/ e = "w" /\ Within(p.x, RSub(R(0), hw), HandleTol) /\ alongY}

InsideCrop ==
  /\ RLe(RAbs(DownLocal.x), RDiv(crop.w, R(2)))
  /\ RLe(RAbs(DownLocal.y), RDiv(crop.h, R(2)))

\* a mouse down has just hit-tested a pointer position against the rectangle
HitTested ==
  /\ last.op = "onCropMouseDown"
  /\ crop # NoCrop
  /\ viewToImage(Transforms, last.arg.pt) # Null

\* C26: crop hit-testing reports the rotate handle first, then a corner, then an
\* edge, then 'move' inside the rectangle, and no hit otherwise; a point that
\* passes several of the tests is reported as the one of highest priority.
C26_HitTestPriority ==
  HitTested =>
    LET hit == last.arg.hit
    IN  IF OnRotateHandle THEN hit = Hit("rotate", "none")
        ELSE IF CornersNear # {} THEN hit.mode = "resize" /\ hit.handle \in CornersNear
        ELSE IF EdgesNear # {} THEN hit.mode = "resize" /\ hit.handle \in EdgesNear
        ELSE IF InsideCrop THEN hit = Hit("move", "none")
        ELSE hit = NoHit

\* a mouse down on a point that is near a corner, near two edges and inside the
\* rectangle, reported as the corner
C26_Witness ==
  /\ HitTested
  /\ ~OnRotateHandle
  /\ CornersNear # {}
  /\ Cardinality(EdgesNear) = 2
  /\ InsideCrop
  /\ last.arg.hit.handle \in CornersNear

\* C29: the engine keeps no reference to an offset object a caller supplied: no
\* layer's offset is a caller's object, so moveLayerOffset leaves the caller's
\* object at the value the caller gave it and no two layers share one object.
C29_EngineKeepsNoCallerOffset ==
  \A k \in 1..Len(callerOffsets) :
    /\ callerOffsets[k].holders \cap Ids(layers) = {}
    /\ callerOffsets[k].value = callerOffsets[k].given

====
